---- MODULE Spec2Model ----
(***************************************************************************)
(* A model of src/src/framework/bit_value.py: the BitValue class, a        *)
(* fixed-width two's-complement value stored as a string of '0'/'1'        *)
(* characters (index 0 of the Python string = most significant bit).       *)
(*                                                                         *)
(* Python strings are sequences of one-character strings; position 1 of a  *)
(* sequence is Python index 0.  A BitValue object is a record              *)
(* [value, bits, signed].  A Python argument is a record                   *)
(* [type, n, s, signed]: an int n, a str s, or another BitValue whose      *)
(* stored value is s and whose sign status is signed.                      *)
(***************************************************************************)
EXTENDS Integers, Sequences, FiniteSets, TLC

\* Bounds of the model.
MaxBits == 4
MaxInt == 2

Bit == {"0", "1"}

Repeat(c, n) == [i \in 1..n |-> c]

BitStrings(n) == [1..n -> Bit]

RECURSIVE Pow2(_)
Pow2(n) == IF n = 0 THEN 1 ELSE 2 * Pow2(n - 1)

\* ------------------------------------------------------------ Python values

PyInt(n) == [type |-> "int", n |-> n, s |-> <<>>, signed |-> TRUE]
PyStr(s) == [type |-> "str", n |-> 0, s |-> s, signed |-> TRUE]
PyBitValue(obj) == [type |-> "BitValue", n |-> 0, s |-> obj.value, signed |-> obj.signed]
PyNone == [type |-> "NoneType", n |-> 0, s |-> <<>>, signed |-> TRUE]
PyTrue == [type |-> "bool", n |-> 1, s |-> <<>>, signed |-> TRUE]
PyEmptyList == [type |-> "list", n |-> 0, s |-> <<>>, signed |-> TRUE]

DecDigit == <<"0", "1", "2", "3", "4", "5", "6", "7", "8", "9">>

\* str(n) of a non-negative int: its decimal digits.
RECURSIVE str_nat(_)
str_nat(n) == IF n < 10 THEN <<DecDigit[n + 1]>>
              ELSE str_nat(n \div 10) \o <<DecDigit[(n % 10) + 1]>>

\* str(n) of an int.
str_int(n) == IF n < 0 THEN <<"-">> \o str_nat(-n) ELSE str_nat(n)

\* BitValue.bin, which is also __str__ and __repr__: "0b" + self.value.
bin(self) == <<"0", "b">> \o self.value

\* str(value) as the value setter applies it to its argument.
str(v) == CASE v.type = "int" -> str_int(v.n)
            [] v.type = "str" -> v.s
            [] v.type = "BitValue" -> bin([value |-> v.s])
            [] v.type = "bool" -> <<"T", "r", "u", "e">>
            [] v.type = "list" -> <<"[", "]">>
            [] OTHER -> <<"N", "o", "n", "e">>

DigitValue(c) == CHOOSE d \in 0..9 : DecDigit[d + 1] = c

IsDecDigits(s) == Len(s) > 0 /\ \A i \in 1..Len(s) : \E d \in 0..9 : DecDigit[d + 1] = s[i]

RECURSIVE nat_of_digits(_)
nat_of_digits(s) == IF Len(s) = 0 THEN 0
                    ELSE 10 * nat_of_digits(SubSeq(s, 1, Len(s) - 1)) + DigitValue(s[Len(s)])

\* int(s) of a decimal text with an optional sign; int_raises(s) when int(s) raises ValueError.
int_raises(s) == ~ IF Len(s) > 0 /\ s[1] \in {"-", "+"} THEN IsDecDigits(Tail(s)) ELSE IsDecDigits(s)

int_of_str(s) == IF s[1] = "-" THEN - nat_of_digits(Tail(s))
                 ELSE IF s[1] = "+" THEN nat_of_digits(Tail(s))
                 ELSE nat_of_digits(s)

\* int(s, 2) of a string of binary digits.
RECURSIVE int_base2(_)
int_base2(s) == IF Len(s) = 0 THEN 0
                ELSE 2 * int_base2(SubSeq(s, 1, Len(s) - 1)) + (IF s[Len(s)] = "1" THEN 1 ELSE 0)

\* -------------------------------------------------------- base conversions

\* A faulty _adapt_bit_count that pads but never cuts a value longer than `bits`.
_adapt_bit_count_uncut(self, value) ==
    IF Len(value) < self.bits
    THEN Repeat(IF self.signed THEN value[1] ELSE "0", self.bits - Len(value)) \o value
    ELSE value

\* A faulty _adapt_bit_count that pads with "0" whatever the sign status.
_adapt_bit_count_zero_padded(self, value) ==
    LET padded == IF Len(value) < self.bits
                  THEN Repeat("0", self.bits - Len(value)) \o value
                  ELSE value
    IN SubSeq(padded, Len(padded) - self.bits + 1, Len(padded))

\* BitValue._adapt_bit_count: pad on the left to `bits` characters (with the value's
\* own first character when signed, with "0" otherwise), then keep the last `bits`.
_adapt_bit_count(self, value) ==
    LET padding == IF self.signed THEN value[1] ELSE "0"
        padded == IF Len(value) < self.bits
                  THEN Repeat(padding, self.bits - Len(value)) \o value
                  ELSE value
    IN SubSeq(padded, Len(padded) - self.bits + 1, Len(padded))

\* The loop of _set_from_int: the binary digits of a non-negative int, "" for 0.
RECURSIVE bin_value_of(_)
bin_value_of(n) == IF n = 0 THEN <<>>
                   ELSE bin_value_of(n \div 2) \o <<DecDigit[(n % 2) + 1]>>

Abs(n) == IF n < 0 THEN -n ELSE n


NoExc == "none"

Prefix2(s) == SubSeq(s, 1, IF Len(s) < 2 THEN Len(s) ELSE 2)

Drop2(s) == SubSeq(s, 3, Len(s))

\* The class maps of BitValue.
_oct == [d \in {"0", "1", "2", "3", "4", "5", "6", "7"} |->
           CASE d = "0" -> <<"0", "0", "0">> [] d = "1" -> <<"0", "0", "1">>
             [] d = "2" -> <<"0", "1", "0">> [] d = "3" -> <<"0", "1", "1">>
             [] d = "4" -> <<"1", "0", "0">> [] d = "5" -> <<"1", "0", "1">>
             [] d = "6" -> <<"1", "1", "0">> [] d = "7" -> <<"1", "1", "1">>]

HexDigit == <<"0", "1", "2", "3", "4", "5", "6", "7", "8", "9", "A", "B", "C", "D", "E", "F">>

_hex == [d \in {HexDigit[i] : i \in 1..16} |->
           CASE d = "0" -> <<"0", "0", "0", "0">> [] d = "1" -> <<"0", "0", "0", "1">>
             [] d = "2" -> <<"0", "0", "1", "0">> [] d = "3" -> <<"0", "0", "1", "1">>
             [] d = "4" -> <<"0", "1", "0", "0">> [] d = "5" -> <<"0", "1", "0", "1">>
             [] d = "6" -> <<"0", "1", "1", "0">> [] d = "7" -> <<"0", "1", "1", "1">>
             [] d = "8" -> <<"1", "0", "0", "0">> [] d = "9" -> <<"1", "0", "0", "1">>
             [] d = "A" -> <<"1", "0", "1", "0">> [] d = "B" -> <<"1", "0", "1", "1">>
             [] d = "C" -> <<"1", "1", "0", "0">> [] d = "D" -> <<"1", "1", "0", "1">>
             [] d = "E" -> <<"1", "1", "1", "0">> [] d = "F" -> <<"1", "1", "1", "1">>]

\* (b1, b2, c) -> (s, c): the full adder.
_add == [t \in Bit \X Bit \X Bit |->
           CASE t = <<"0", "0", "0">> -> <<"0", "0">> [] t = <<"0", "0", "1">> -> <<"1", "0">>
             [] t = <<"0", "1", "0">> -> <<"1", "0">> [] t = <<"0", "1", "1">> -> <<"0", "1">>
             [] t = <<"1", "0", "0">> -> <<"1", "0">> [] t = <<"1", "0", "1">> -> <<"0", "1">>
             [] t = <<"1", "1", "0">> -> <<"0", "1">> [] t = <<"1", "1", "1">> -> <<"1", "1">>]

_inv == [d \in Bit |-> IF d = "0" THEN "1" ELSE "0"]

_and == [t \in Bit \X Bit |-> IF t[1] = "1" /\ t[2] = "1" THEN "1" ELSE "0"]

_or == [t \in Bit \X Bit |-> IF t[1] = "1" \/ t[2] = "1" THEN "1" ELSE "0"]

_xor == [t \in Bit \X Bit |-> IF t[1] # t[2] THEN "1" ELSE "0"]

\* str.upper() on one character of a hexadecimal literal.
upper(c) == CASE c = "a" -> "A" [] c = "b" -> "B" [] c = "c" -> "C"
              [] c = "d" -> "D" [] c = "e" -> "E" [] c = "f" -> "F" [] OTHER -> c

RECURSIVE join(_, _)
join(table, digits) == IF Len(digits) = 0 THEN <<>>
                       ELSE table[Head(digits)] \o join(table, Tail(digits))

AllIn(s, S) == Len(s) > 0 /\ \A i \in 1..Len(s) : s[i] \in S

\* The text the regular expression of a _set_from_* method captures as "value"
\* (the optional marker removed).
Captured(marker, s) == IF Prefix2(s) = marker THEN Drop2(s) ELSE s

upper_str(s) == [i \in 1..Len(s) |-> upper(s[i])]

\* The text the value setter dispatches on: str(value), "0b0" for None.
setter_text(value) == IF value.type = "NoneType" THEN <<"0", "b", "0">> ELSE str(value)

\* Whether the _set_from_* method the setter picks for the text s accepts it.
setter_accepts(s) ==
    CASE Prefix2(s) = <<"0", "b">> -> AllIn(Captured(<<"0", "b">>, s), Bit)
      [] Prefix2(s) = <<"0", "o">> -> AllIn(Captured(<<"0", "o">>, s), DOMAIN _oct)
      [] Prefix2(s) = <<"0", "x">> -> AllIn(upper_str(Captured(<<"0", "x">>, s)), DOMAIN _hex)
      [] OTHER -> ~ int_raises(s)

\* A faulty setter that does not look at the type of its argument.
value_exc_of_any_type(value) ==
    IF setter_accepts(setter_text(value)) THEN NoExc ELSE "ValueError"

\* The exception the value setter raises for the argument `value`, NoExc when it
\* stores a value.
value_exc(value) ==
    IF value.type \notin {"NoneType", "int", "str", "BitValue"} THEN "TypeError"
    ELSE IF setter_accepts(setter_text(value)) THEN NoExc ELSE "ValueError"

_set_from_bin(self, value) == _adapt_bit_count(self, Captured(<<"0", "b">>, value))

_set_from_oct(self, value) ==
    _adapt_bit_count(self, join(_oct, Captured(<<"0", "o">>, value)))

_set_from_hex(self, value) ==
    _adapt_bit_count(self, join(_hex, upper_str(Captured(<<"0", "x">>, value))))

\* A faulty __getitem__ that counts a key from 0 up from the first character.
__getitem___from_first(self, key) == self.value[IF key >= 0 THEN key + 1 ELSE Abs(key)]

\* BitValue.__getitem__ with an int key inside [-bits, bits): the one-character
\* string self.value[stop - 1:stop], as its character.
__getitem__(self, key) == self.value[IF key >= 0 THEN self.bits - key ELSE Abs(key)]

\* Whether __getitem__ raises IndexError("bit index out of range") for an int key.
__getitem___raises(self, key) == key >= self.bits \/ key < - self.bits

\* slice(start, stop, step), each of the three an int or None.
PySlice(start, stop, step) == [type |-> "slice", start |-> start, stop |-> stop, step |-> step]

\* One endpoint of key.indices(length) for a step of 1: None gives the default, a
\* negative int counts from the end, and the result is kept inside [0, length].
indices_of(endpoint, default, length) ==
    IF endpoint.type = "NoneType" THEN default
    ELSE IF endpoint.n < 0 THEN (IF endpoint.n + length < 0 THEN 0 ELSE endpoint.n + length)
    ELSE IF endpoint.n > length THEN length ELSE endpoint.n

\* Whether __getitem__ raises ValueError for a slice key: step is neither None
\* (which indices() turns into 1) nor 1.
__getitem___slice_raises(self, key) == key.step.type # "NoneType" /\ key.step.n # 1

\* s[start:stop] of a Python string, for 0 <= start and 0 <= stop <= len(s).
substring(s, start, stop) == SubSeq(s, start + 1, stop)

\* A faulty __getitem__ that slices self.value without the switch of the indices.
__getitem___slice_unswitched(self, key) ==
    substring(self.value, indices_of(key.start, 0, self.bits),
              indices_of(key.stop, self.bits, self.bits))

\* BitValue.__getitem__ with a slice key of step 1.
__getitem___slice(self, key) ==
    LET start == indices_of(key.start, 0, self.bits)
        stop == indices_of(key.stop, self.bits, self.bits)
    IN substring(self.value, self.bits - stop, self.bits - start)

\* A faulty step of the loop of __add__ that never carries.
__add___step_carryless(self, other, i, rc) ==
    <<<<_add[<<__getitem__(self, i), __getitem__(other, i), rc[2]>>][1]>> \o rc[1], "0">>

\* One step of the loop of __add__: <<result, carry>> after index i.
__add___step(self, other, i, rc) ==
    <<<<_add[<<__getitem__(self, i), __getitem__(other, i), rc[2]>>][1]>> \o rc[1],
      _add[<<__getitem__(self, i), __getitem__(other, i), rc[2]>>][2]>>

\* The loop of __add__ from index i on: <<result, carry>>.
RECURSIVE __add___loop(_, _, _, _)
__add___loop(self, other, i, rc) ==
    IF i >= self.bits THEN rc
    ELSE __add___loop(self, other, i + 1, __add___step(self, other, i, rc))

(* The methods call each other in a circle: the value setter calls               *)
(* _set_from_int, which calls invert() and increment(), which call the operators *)
(* ~ and +, which call _normalize_value, which constructs a BitValue through the *)
(* value setter.  Every call inside an operator is made with another BitValue    *)
(* (whose str starts with "0b"), with a text the operator builds (which starts   *)
(* with "0b") or with the int 0 or 1, so the setter runs _set_from_bin or the    *)
(* non-negative part of _set_from_int there.  These calls are modelled by        *)
(* _normalize_bin, _normalize_obj and _normalize_nat; a binary operator          *)
(* __op__(self, other) is its first line, other = self._normalize_value(other),  *)
(* followed by __op___of(self, other), the rest of its body.                     *)

\* _normalize_value(value), and self.value = value, for a text that starts with "0b".
_normalize_bin(self, value) == [self EXCEPT !.value = _set_from_bin(self, value)]

\* A faulty assignment of a BitValue that leaves self as it was.
_normalize_obj_unassigned(self, obj) == self

\* _normalize_value(obj), and self.value = obj, for a BitValue obj.
_normalize_obj(self, obj) == _normalize_bin(self, bin(obj))

\* _set_from_int for an int that is not negative (lines 108-118).
_set_from_nat(self, n) == _adapt_bit_count(self, <<"0">> \o bin_value_of(n))

\* _normalize_value(n) for an int that is not negative.
_normalize_nat(self, n) == [self EXCEPT !.value = _set_from_nat(self, n)]

copy(self) == _normalize_obj(self, self)

\* A faulty __invert__ that returns the value as it is.
__invert___unchanged(self) == copy(self)

\* BitValue.__invert__.
__invert__(self) ==
    _normalize_bin(self, <<"0", "b">> \o [i \in 1..Len(self.value) |-> _inv[self.value[i]]])

\* The text __add__ hands to _normalize_value, from the <<result, carry>> of its loop.
__add___text(rc) == <<"0", "b">> \o <<rc[2]>> \o rc[1]

\* BitValue.__add__ after its first line.
__add___of(self, other) ==
    _normalize_bin(self, __add___text(__add___loop(self, other, 0, <<<<>>, "0">>)))

\* BitValue.invert: self.value = ~self.
invert(self) == _normalize_obj(self, __invert__(self))

\* BitValue.increment: self.value = self + 1.
increment(self) == _normalize_obj(self, __add___of(self, _normalize_nat(self, 1)))

Last(w) == w[Len(w)]

\* A faulty end of _set_from_int that never calls increment().
_set_from_int_negative_unincremented(first) == <<first, invert(first)>>

\* The values self._value takes in _set_from_int for a negative int, from the first
\* one (line 118) on: after invert() and after increment().
_set_from_int_negative(first) == <<first, invert(first), increment(invert(first))>>

\* BitValue._set_from_int, by the objects self is in turn.
_set_from_int_writes(self, n) ==
    IF n < 0 THEN _set_from_int_negative(_normalize_nat(self, Abs(n)))
    ELSE <<_normalize_nat(self, Abs(n))>>

_set_from_int(self, value) == Last(_set_from_int_writes(self, int_of_str(value))).value

\* The _set_from_* method the setter picks for the text s, applied to it.
setter(self, s) ==
    CASE Prefix2(s) = <<"0", "b">> -> _set_from_bin(self, s)
      [] Prefix2(s) = <<"0", "o">> -> _set_from_oct(self, s)
      [] Prefix2(s) = <<"0", "x">> -> _set_from_hex(self, s)
      [] OTHER -> _set_from_int(self, s)

\* The value setter: the object after `self.value = value` (value_exc(value) = NoExc).
value_setter(self, value) == [self EXCEPT !.value = setter(self, setter_text(value))]

\* BitValue.__init__ with legal bits: the object constructed from `value`.
__init__(value, bits, signed) ==
    value_setter([value |-> <<>>, bits |-> bits, signed |-> signed], value)

_normalize_value(self, value) == __init__(value, self.bits, self.signed)

__add__(self, other) == __add___of(self, _normalize_value(self, other))

\* ------------------------------------------------------------- conversions

is_positive(self) == IF ~ self.signed THEN TRUE ELSE self.value[1] = "0"

is_negative(self) == ~ is_positive(self)

\* A faulty __neg__ that stops at the one's complement.
__neg___ones_complement(self) == __invert__(self)

\* BitValue.__neg__: result = ~self; result.increment().
__neg__(self) == increment(__invert__(self))

\* A faulty __abs__ that returns a copy whatever the sign.
__abs___of_copy(self) == copy(self)

__abs__(self) == IF is_positive(self) THEN copy(self) ELSE __neg__(self)

\* int(value, 2) of the text str(BitValue): the "0b" marker is accepted and skipped.
int_2(value) == int_base2(Captured(<<"0", "b">>, value))

\* A faulty __int__ that returns the magnitude without its sign.
__int___of_magnitude(self) == int_2(bin(__abs__(self)))

\* BitValue.__int__, which is also int and __index__.
__int__(self) ==
    IF ~ is_negative(self) THEN int_2(bin(__abs__(self))) ELSE - int_2(bin(__abs__(self)))

\* int(other) of a Python argument.
py_int(other) ==
    CASE other.type = "int" -> other.n
      [] other.type = "BitValue" ->
             __int__([value |-> other.s, bits |-> Len(other.s), signed |-> other.signed])
      [] OTHER -> int_of_str(other.s)

\* --------------------------------------------------------------- rendering

\* BitValue.__iter__: self[i] for i in range(self.bits).
__iter__(self) == [i \in 1..self.bits |-> __getitem__(self, i - 1)]

\* BitValue.__bool__: "1" in self, which goes through __iter__.
__bool__(self) == \E i \in 1..self.bits : __iter__(self)[i] = "1"

\* BitValue.dec: str(int(self)).
dec(self) == str_int(__int__(self))

\* s.lstrip("0")
RECURSIVE lstrip0(_)
lstrip0(s) == IF Len(s) > 0 /\ s[1] = "0" THEN lstrip0(Tail(s)) ELSE s

\* The digits of a non-negative int in the base of the presentation types "o" and
\* "x" (lower case), a single "0" for 0.
RECURSIVE digits_of(_, _)
digits_of(n, base) ==
    LET digit == <<"0", "1", "2", "3", "4", "5", "6", "7", "8", "9",
                   "a", "b", "c", "d", "e", "f">>[(n % base) + 1]
    IN IF n < base THEN <<digit>> ELSE digits_of(n \div base, base) \o <<digit>>

\* "{:>0<width>o}".format(n) and "{:>0<width>x}".format(n) of a non-negative int:
\* its digits, right-aligned and filled with "0" up to `width` characters.
format(n, base, width) ==
    LET digits == digits_of(n, base)
    IN IF Len(digits) < width THEN Repeat("0", width - Len(digits)) \o digits ELSE digits

\* BitValue.oct: the digit count comes from self.value.lstrip("0").
oct(self) ==
    LET length == Len(lstrip0(self.value))
        oct_digits == (length + 2) \div 3
    IN <<"0", "o">> \o format(int_base2(self.value), 8, oct_digits)

\* BitValue.hex: the digit count comes from self.value.lstrip("0"), the digits are
\* upper-cased.
hex(self) ==
    LET length == Len(lstrip0(self.value))
        hex_digits == (length + 3) \div 4
    IN <<"0", "x">> \o upper_str(format(int_base2(self.value), 16, hex_digits))

\* -------------------------------------------------------------- comparison

\* The first index (Python index + 1) at which the two values differ, 0 when none.
first_difference(self, other) ==
    IF \A i \in 1..self.bits : self.value[i] = other.value[i] THEN 0
    ELSE CHOOSE i \in 1..self.bits :
            /\ self.value[i] # other.value[i]
            /\ \A k \in 1..(i - 1) : self.value[k] = other.value[k]

\* The loop of compare_to and the return after it, i the first difference.
compare_to___loop(self, other, i) ==
    IF i = 0 THEN "equal"
    ELSE IF self.value[i] = "1" /\ other.value[i] = "0" THEN "greater" ELSE "less"

\* A faulty compare_to that never looks at the sign.
compare_to___of_unsigned(self, other) ==
    compare_to___loop(self, other, first_difference(self, other))

\* BitValue.compare_to after its first line.
compare_to___of(self, other) ==
    IF self.signed /\ self.value[1] # other.value[1]
    THEN (IF self.value[1] = "0" THEN "greater" ELSE "less")
    ELSE compare_to___loop(self, other, first_difference(self, other))

compare_to(self, other) == compare_to___of(self, _normalize_value(self, other))

__lt__(self, other) == compare_to(self, other) = "less"

__le__(self, other) == compare_to(self, other) \in {"less", "equal"}

__eq__(self, other) == compare_to(self, other) = "equal"

__ne__(self, other) == compare_to(self, other) # "equal"

__gt__(self, other) == compare_to(self, other) = "greater"

__ge__(self, other) == compare_to(self, other) \in {"greater", "equal"}

\* -------------------------------------------------------------- arithmetic

__iadd__(self, other) == _normalize_obj(self, __add__(self, other))

\* BitValue.__sub__ after its first line: self + -other.
__sub___of(self, other) == __add___of(self, _normalize_obj(self, __neg__(other)))

__sub__(self, other) == __sub___of(self, _normalize_value(self, other))

__isub__(self, other) == _normalize_obj(self, __sub__(self, other))

\* BitValue.decrement: self.value = self - 1.
decrement(self) == _normalize_obj(self, __sub___of(self, _normalize_nat(self, 1)))

\* "0" * n (the empty string when n <= 0).
Zeros(n) == IF n <= 0 THEN <<>> ELSE Repeat("0", n)

\* A faulty text that appends one "0" whatever the amount.
__lshift___text_by_one(self, n) == <<"0", "b">> \o self.value \o <<"0">>

\* The text __lshift__ hands to _normalize_value, n being int(other).
__lshift___text(self, n) == <<"0", "b">> \o self.value \o Zeros(n)

__lshift__(self, other) == _normalize_bin(self, __lshift___text(self, py_int(other)))

__ilshift__(self, other) == _normalize_obj(self, __lshift__(self, other))

\* A faulty body of the loop of __mul__ that never shifts the multiplicand.
__mul___step_unshifted(bit, rm) ==
    <<IF bit = "1"
      THEN _normalize_obj(rm[1], __add___of(rm[1], _normalize_obj(rm[1], rm[2])))
      ELSE rm[1],
      rm[2]>>

\* The body of the loop of __mul__ for one bit of other: <<result, multiplicand>>.
__mul___step(bit, rm) ==
    <<IF bit = "1"
      THEN _normalize_obj(rm[1], __add___of(rm[1], _normalize_obj(rm[1], rm[2])))
      ELSE rm[1],
      _normalize_obj(rm[2], _normalize_bin(rm[2], __lshift___text(rm[2], 1)))>>

\* The loop of __mul__ over the bits of other from index i on (index 0 = LSB).
RECURSIVE __mul___loop(_, _, _)
__mul___loop(other, i, rm) ==
    IF i >= other.bits THEN rm[1]
    ELSE __mul___loop(other, i + 1, __mul___step(__getitem__(other, i), rm))

\* BitValue.__mul__ after its first line.
__mul___of(self, other) ==
    __mul___loop(other, 0, <<_normalize_nat(self, 0), copy(self)>>)

__mul__(self, other) == __mul___of(self, _normalize_value(self, other))

__imul__(self, other) == _normalize_obj(self, __mul__(self, other))

\* self *= obj for a BitValue obj.
__imul___obj(self, obj) == _normalize_obj(self, __mul___of(self, _normalize_obj(self, obj)))

\* A faulty body of the loop of __pow__ that never squares the base.
__pow___step_unsquared(bit, rb) ==
    <<IF bit = "1" THEN __imul___obj(rb[1], rb[2]) ELSE rb[1], rb[2]>>

\* The body of the loop of __pow__ for one bit of power: <<result, base>>.
__pow___step(bit, rb) ==
    <<IF bit = "1" THEN __imul___obj(rb[1], rb[2]) ELSE rb[1], __imul___obj(rb[2], rb[2])>>

\* The loop of __pow__ over the bits of power from index i on (index 0 = LSB).
RECURSIVE __pow___loop(_, _, _)
__pow___loop(power, i, rb) ==
    IF i >= power.bits THEN rb[1]
    ELSE __pow___loop(power, i + 1, __pow___step(__getitem__(power, i), rb))

\* BitValue.__pow__ after its first line.
__pow___of(self, other) ==
    __pow___loop(copy(other), 0, <<_normalize_nat(self, 1), copy(self)>>)

__pow__(self, other) == __pow___of(self, _normalize_value(self, other))

__ipow__(self, other) == _normalize_obj(self, __pow__(self, other))

\* ----------------------------------------------------------------- bitwise

\* A faulty zip that pairs self.value with itself.
zip_join_of_self(table, self, other) ==
    [i \in 1..Len(self.value) |-> table[<<self.value[i], self.value[i]>>]]

\* zip(self.value, other.value) joined through a truth table.
zip_join(table, self, other) ==
    [i \in 1..(IF Len(self.value) < Len(other.value) THEN Len(self.value) ELSE Len(other.value))
       |-> table[<<self.value[i], other.value[i]>>]]

\* __and__, __or__ and __xor__ after their first line, table being _and, _or or _xor.
bitwise_of(table, self, other) ==
    _normalize_bin(self, <<"0", "b">> \o zip_join(table, self, other))

__and__(self, other) == bitwise_of(_and, self, _normalize_value(self, other))

__iand__(self, other) == _normalize_obj(self, __and__(self, other))

__or__(self, other) == bitwise_of(_or, self, _normalize_value(self, other))

__ior__(self, other) == _normalize_obj(self, __or__(self, other))

__xor__(self, other) == bitwise_of(_xor, self, _normalize_value(self, other))

__ixor__(self, other) == _normalize_obj(self, __xor__(self, other))

\* s[:e] of a Python string.
slice_to(s, e) ==
    SubSeq(s, 1, IF e < 0 THEN (IF e + Len(s) < 0 THEN 0 ELSE e + Len(s))
                 ELSE (IF e > Len(s) THEN Len(s) ELSE e))

\* The text __rshift__ hands to _normalize_value, n being int(other).
__rshift___text(self, n) == <<"0", "b">> \o Zeros(n) \o slice_to(self.value, - n)

__rshift__(self, other) == _normalize_bin(self, __rshift___text(self, py_int(other)))

__irshift__(self, other) == _normalize_obj(self, __rshift__(self, other))

\* ---------------------------------------------------------------- division

\* A faulty test that lets a zero divisor through.
_floor_division_never_raises(other) == FALSE

\* The test of _floor_division that raises ZeroDivisionError: int(other) == 0.
_floor_division_raises(other) == __int__(other) = 0

\* The local variables of _floor_division when its loop is entered, and the number
\* of iterations the loop has taken, which is counted up to 2^bits.
_floor_division_enter(self, other) ==
    [other |-> other, quotient |-> _normalize_nat(self, 0), remainder |-> copy(self),
     iterations |-> 0]

\* The condition of the loop of _floor_division: remainder >= other.
_floor_division_test(f) ==
    compare_to___of(f.remainder, _normalize_obj(f.remainder, f.other)) \in {"greater", "equal"}

\* A faulty iteration of the loop of _floor_division that never counts.
_floor_division_body_uncounted(f) ==
    [f EXCEPT !.remainder = _normalize_obj(f.remainder,
                                           __sub___of(f.remainder,
                                                      _normalize_obj(f.remainder, f.other)))]

\* One iteration of the loop of _floor_division.
_floor_division_body(f) ==
    [f EXCEPT !.iterations = IF @ < Pow2(f.quotient.bits) THEN @ + 1 ELSE @,
              !.quotient = increment(f.quotient),
              !.remainder = _normalize_obj(f.remainder,
                                           __sub___of(f.remainder,
                                                      _normalize_obj(f.remainder, f.other)))]


\* ------------------------------------------------------------ state machine

VARIABLES
    bv,     \* the BitValue object the calls are made on: [value, bits, signed]
    ctor,   \* the bits and signed arguments bv was constructed with
    pc,     \* "idle": between calls; "div": inside the loop of _floor_division;
            \* "set": between two writes of _set_from_int;
            \* "returned": a call has returned or raised
    call,   \* the last call: the method, its argument, bv before it, what it raised
            \* and what it returned
    frame,  \* the local variables of _floor_division
    pending,    \* the objects _set_from_int is still to make of bv, one per write
    binary,     \* a call of BinaryValue.div or BinaryValue.mod and its local variables
    flag,       \* a Flag object: its content and its buffer
    registers   \* the register objects: content, input, buffer and slice of each

vars == <<bv, ctor, pc, call, frame, pending, binary, flag, registers>>

\* The objects of the other classes, which a call on a BitValue leaves alone.
others == <<binary, flag, registers>>

\* No call of BinaryValue, no Flag and no register.
NoBinary == [pc |-> "none"]
NoFlag == [content |-> FALSE, buffer |-> <<>>, calls |-> <<>>]
NoRegisters == <<>>

NoObj == [value |-> <<>>, bits |-> 0, signed |-> FALSE]

NoTruth == [cmp |-> "", lt |-> FALSE, le |-> FALSE, eq |-> FALSE, ne |-> FALSE,
            gt |-> FALSE, ge |-> FALSE, reverse |-> ""]

NoFrame == [other |-> NoObj, quotient |-> NoObj, remainder |-> NoObj, iterations |-> 0]

NoCall == [op |-> "", other |-> PyNone, before |-> NoObj, exc |-> NoExc, ret |-> NoObj,
           truth |-> NoTruth]

\* The BitValue objects of n bits with the sign status of self.
Similar(self, n) == {[value |-> v, bits |-> n, signed |-> self.signed] : v \in BitStrings(n)}

\* The arguments the calls are made with: small ints, and BitValue objects of up to
\* one bit more than the receiver.
Others(self) ==
    {PyInt(n) : n \in -MaxInt..MaxInt}
    \cup UNION {{PyBitValue(o) : o \in Similar(self, n)} : n \in 1..(self.bits + 1)}

\* The decimal texts a value is constructed from or set to, with the int each one
\* is read as.
DecimalTexts ==
    {[s |-> <<"-", "3">>, n |-> -3], [s |-> <<"2", "1">>, n |-> 21],
     [s |-> <<"+", "6">>, n |-> 6], [s |-> <<"-", "1", "7">>, n |-> -17]}

\* The literals a value is constructed from or set to, with the binary expansion
\* of each one: its digits after the marker, three bits for an octal digit and
\* four for a hexadecimal one.
Literals ==
    {[s |-> <<"0", "b", "1", "0", "1">>, expansion |-> <<"1", "0", "1">>],
     [s |-> <<"0", "b", "0", "1">>, expansion |-> <<"0", "1">>],
     [s |-> <<"0", "b", "1", "1", "0", "0", "1", "0", "1">>,
      expansion |-> <<"1", "1", "0", "0", "1", "0", "1">>],
     [s |-> <<"0", "o", "5">>, expansion |-> <<"1", "0", "1">>],
     [s |-> <<"0", "o", "1", "7">>, expansion |-> <<"0", "0", "1", "1", "1", "1">>],
     [s |-> <<"0", "x", "5">>, expansion |-> <<"0", "1", "0", "1">>],
     [s |-> <<"0", "x", "1", "f">>,
      expansion |-> <<"0", "0", "0", "1", "1", "1", "1", "1">>],
     [s |-> <<"0", "x", "F", "0", "F">>,
      expansion |-> <<"1", "1", "1", "1", "0", "0", "0", "0", "1", "1", "1", "1">>]}

\* Texts with a character outside the digits of their base.
IllegalTexts ==
    {<<"0", "b", "2">>, <<"0", "b", "0", "0", "2">>, <<"0", "o", "1", "8", "7">>,
     <<"0", "x", "1", "q">>, <<"1", "2", "a">>, <<"1", "2", ".", "3">>}

\* The texts a value is constructed from or set to: the decimal texts, the literals
\* and the illegal texts.
Texts ==
    {PyStr(d.s) : d \in DecimalTexts} \cup {PyStr(l.s) : l \in Literals}
    \cup {PyStr(s) : s \in IllegalTexts}

\* Values of a type the setter does not support.
IllegalTypes == {PyTrue, PyEmptyList}

\* The ints a value is constructed from or set to beyond the small ones: ints of
\* more bits than the widths, of either sign.
WideInts == {PyInt(n) : n \in {-21, -7, 5, 16, 21}}

\* The values a BitValue is constructed from or set to.
Values(self) == Others(self) \cup Texts \cup WideInts \cup {PyNone} \cup IllegalTypes

\* The shift amounts.
Amounts(self) == {PyInt(n) : n \in 0..(self.bits + 1)}

\* The int keys a vector is indexed with: those of its bits, counted from either end,
\* and two beyond each end.
Keys(self) == {PyInt(k) : k \in (- self.bits - 2)..(self.bits + 1)}

\* The endpoints a vector is sliced with: None, and the ints from one beyond its
\* width counted from the end to one beyond its width.
Endpoints(self) == {PyNone} \cup {PyInt(k) : k \in (- self.bits - 1)..(self.bits + 1)}

\* The slice keys a vector is indexed with: every pair of endpoints with step None
\* or 1, and some keys with another step.
Slices(self) ==
    {PySlice(start, stop, step) :
        start \in Endpoints(self), stop \in Endpoints(self), step \in {PyNone, PyInt(1)}}
    \cup {PySlice(start, PyNone, step) :
            start \in {PyNone, PyInt(1)}, step \in {PyInt(-1), PyInt(0), PyInt(2)}}

\* The constructor has returned the object bv, constructed from a value it accepts.
Init ==
    /\ \E bits \in 1..MaxBits, signed \in BOOLEAN :
          /\ ctor = [bits |-> bits, signed |-> signed]
          /\ \E value \in Values([bits |-> bits, signed |-> signed]) :
                /\ value_exc(value) = NoExc
                /\ bv = __init__(value, bits, signed)
                /\ call = [NoCall EXCEPT !.op = "__init__", !.other = value]
    /\ pc = "returned"
    /\ frame = NoFrame
    /\ pending = <<>>
    /\ binary = NoBinary
    /\ flag = NoFlag
    /\ registers = NoRegisters

\* A call of method op with argument other that raises exc or, when exc is NoExc,
\* leaves the receiver as newbv and returns ret (a BitValue) or truth (booleans).
Done(op, other, exc, newbv, ret, truth) ==
    /\ pc = "idle"
    /\ pc' = "returned"
    /\ call' = [op |-> op, other |-> other, before |-> bv, exc |-> exc,
                ret |-> IF exc = NoExc THEN ret ELSE NoObj,
                truth |-> IF exc = NoExc THEN truth ELSE NoTruth]
    /\ bv' = IF exc = NoExc THEN newbv ELSE bv
    /\ UNCHANGED <<ctor, frame, pending, others>>

\* An operator that returns a new BitValue.
Returns(op, other, exc, ret) == Done(op, other, exc, bv, ret, NoTruth)

\* An in-place operator: it assigns to self.value and returns self.
Assigns(op, other, exc, newbv) == Done(op, other, exc, newbv, newbv, NoTruth)

\* A method that assigns to self.value and returns None.
Mutates(op, other, exc, newbv) == Done(op, other, exc, newbv, NoObj, NoTruth)

\* The exception of an operator that hands the text s to _normalize_value.
text_exc(s) == IF setter_accepts(s) THEN NoExc ELSE "ValueError"

\* Whether the setter hands the argument `value` to _set_from_int with a negative
\* int, which writes self._value three times.
_set_from_int_negative_taken(value) ==
    /\ value_exc(value) = NoExc
    /\ value.type \in {"int", "str"}
    /\ Prefix2(setter_text(value)) \notin {<<"0", "b">>, <<"0", "o">>, <<"0", "x">>}
    /\ int_of_str(setter_text(value)) < 0

\* bv.value = value, for every value but a negative int or decimal text: the setter
\* raises, or writes self._value once and returns.
SetValue(value) ==
    /\ ~ _set_from_int_negative_taken(value)
    /\ Mutates("value", value, value_exc(value), value_setter(bv, value))

\* bv.value = value for a negative int or decimal text, up to the first write of
\* _set_from_int (line 118): the magnitude, adapted to the bits.
SetFromIntEnter(value) ==
    /\ pc = "idle"
    /\ _set_from_int_negative_taken(value)
    /\ LET writes == _set_from_int_writes(bv, int_of_str(setter_text(value)))
       IN /\ bv' = Head(writes)
          /\ pending' = Tail(writes)
    /\ call' = [NoCall EXCEPT !.op = "value", !.other = value, !.before = bv]
    /\ pc' = "set"
    /\ UNCHANGED <<ctor, frame, others>>

\* The next write of _set_from_int: self.invert(), then self.increment(), after
\* which the setter returns.
SetFromIntWrite ==
    /\ pc = "set"
    /\ bv' = Head(pending)
    /\ pending' = Tail(pending)
    /\ pc' = IF Len(pending) = 1 THEN "returned" ELSE "set"
    /\ UNCHANGED <<ctor, call, frame, others>>

\* The BitValue object an argument of type BitValue is.
ObjectOf(other) == [value |-> other.s, bits |-> Len(other.s), signed |-> other.signed]

\* other.compare_to(self) for an argument that is a BitValue, "" for any other.
reverse_compare_to(self, other) ==
    IF other.type = "BitValue" THEN compare_to(ObjectOf(other), PyBitValue(self)) ELSE ""

\* compare_to and the six comparison operators on the same pair, and compare_to
\* with the two objects exchanged.
Compare(other) ==
    Done("compare_to", other, value_exc(other), bv, NoObj,
         [cmp |-> compare_to(bv, other), lt |-> __lt__(bv, other), le |-> __le__(bv, other),
          eq |-> __eq__(bv, other), ne |-> __ne__(bv, other), gt |-> __gt__(bv, other),
          ge |-> __ge__(bv, other), reverse |-> reverse_compare_to(bv, other)])

\* A method that leaves the receiver alone and returns a plain Python value, kept
\* in the truth field of the call.
Answers(op, other, exc, out) == Done(op, other, exc, bv, NoObj, out)

\* bv[key] with an int key
GetItem(key) ==
    Answers("__getitem__", key,
            IF __getitem___raises(bv, key.n) THEN "IndexError" ELSE NoExc,
            [bit |-> __getitem__(bv, key.n)])

\* bv[start:stop:step]
GetSlice(key) ==
    Answers("__getitem__", key,
            IF __getitem___slice_raises(bv, key) THEN "ValueError" ELSE NoExc,
            [text |-> __getitem___slice(bv, key)])

Bool == Answers("__bool__", PyNone, NoExc, [bool |-> __bool__(bv)])

Int_ == Answers("__int__", PyNone, NoExc, [int |-> __int__(bv)])

Bin == Answers("bin", PyNone, NoExc, [text |-> bin(bv)])

Oct == Answers("oct", PyNone, NoExc, [text |-> oct(bv)])

Dec == Answers("dec", PyNone, NoExc, [text |-> dec(bv)])

Hex == Answers("hex", PyNone, NoExc, [text |-> hex(bv)])

Copy == Returns("copy", PyNone, NoExc, copy(bv))

Invert == Mutates("invert", PyNone, NoExc, invert(bv))

Increment == Mutates("increment", PyNone, NoExc, increment(bv))

Decrement == Mutates("decrement", PyNone, NoExc, decrement(bv))

Abs_ == Returns("__abs__", PyNone, NoExc, __abs__(bv))

Neg == Returns("__neg__", PyNone, NoExc, __neg__(bv))

Inv == Returns("__invert__", PyNone, NoExc, __invert__(bv))

Add(other) == Returns("__add__", other, value_exc(other), __add__(bv, other))

IAdd(other) == Assigns("__iadd__", other, value_exc(other), __iadd__(bv, other))

Sub(other) == Returns("__sub__", other, value_exc(other), __sub__(bv, other))

ISub(other) == Assigns("__isub__", other, value_exc(other), __isub__(bv, other))

Mul(other) == Returns("__mul__", other, value_exc(other), __mul__(bv, other))

IMul(other) == Assigns("__imul__", other, value_exc(other), __imul__(bv, other))

Pow(other) == Returns("__pow__", other, value_exc(other), __pow__(bv, other))

IPow(other) == Assigns("__ipow__", other, value_exc(other), __ipow__(bv, other))

And(other) == Returns("__and__", other, value_exc(other), __and__(bv, other))

IAnd(other) == Assigns("__iand__", other, value_exc(other), __iand__(bv, other))

Or(other) == Returns("__or__", other, value_exc(other), __or__(bv, other))

IOr(other) == Assigns("__ior__", other, value_exc(other), __ior__(bv, other))

Xor(other) == Returns("__xor__", other, value_exc(other), __xor__(bv, other))

IXor(other) == Assigns("__ixor__", other, value_exc(other), __ixor__(bv, other))

LShift(other) ==
    Returns("__lshift__", other, text_exc(__lshift___text(bv, py_int(other))),
            __lshift__(bv, other))

ILShift(other) ==
    Assigns("__ilshift__", other, text_exc(__lshift___text(bv, py_int(other))),
            __ilshift__(bv, other))

RShift(other) ==
    Returns("__rshift__", other, text_exc(__rshift___text(bv, py_int(other))),
            __rshift__(bv, other))

IRShift(other) ==
    Assigns("__irshift__", other, text_exc(__rshift___text(bv, py_int(other))),
            __irshift__(bv, other))

InPlaceDivision == {"__ifloordiv__", "__imod__"}

Division == {"__floordiv__", "__mod__"} \cup InPlaceDivision

\* The exception _floor_division raises, NoExc when it enters its loop.
_floor_division_exc(self, other) ==
    IF value_exc(other) # NoExc THEN value_exc(other)
    ELSE IF _floor_division_raises(_normalize_value(self, other)) THEN "ZeroDivisionError"
    ELSE NoExc

\* _floor_division up to its loop, exc being what it raises.
FloorDivisionEnter(op, other, exc) ==
    /\ call' = [op |-> op, other |-> other, before |-> bv, exc |-> exc, ret |-> NoObj,
                truth |-> NoTruth]
    /\ pc' = IF exc = NoExc THEN "div" ELSE "returned"
    /\ frame' = IF exc = NoExc THEN _floor_division_enter(bv, _normalize_value(bv, other))
                ELSE NoFrame

\* A call of //, %, //= or %=.
FloorDivisionCall(op, other) ==
    /\ pc = "idle"
    /\ FloorDivisionEnter(op, other, _floor_division_exc(bv, other))
    /\ UNCHANGED <<bv, ctor, pending, others>>

\* One iteration of `while remainder >= other`.
FloorDivisionLoop ==
    /\ pc = "div"
    /\ _floor_division_test(frame)
    /\ frame' = _floor_division_body(frame)
    /\ UNCHANGED <<bv, ctor, pc, call, pending, others>>

\* What the operator op picks of the (quotient, remainder) _floor_division returns.
Picked(op, f) == IF op \in {"__mod__", "__imod__"} THEN f.remainder ELSE f.quotient

\* The loop exits: _floor_division returns (quotient, remainder), the operator picks
\* one of the two, and an in-place operator assigns it to self.value and returns self.
FloorDivisionReturn ==
    /\ pc = "div"
    /\ ~ _floor_division_test(frame)
    /\ bv' = IF call.op \in InPlaceDivision THEN _normalize_obj(bv, Picked(call.op, frame))
             ELSE bv
    /\ call' = [call EXCEPT !.ret = IF call.op \in InPlaceDivision THEN bv'
                                    ELSE Picked(call.op, frame)]
    /\ pc' = "returned"
    /\ UNCHANGED <<ctor, frame, pending, others>>

\* The caller drops what the call returned and goes on.
Discard ==
    /\ pc = "returned"
    /\ pc' = "idle"
    /\ call' = NoCall
    /\ frame' = NoFrame
    /\ UNCHANGED <<bv, ctor, pending, others>>

\* The guard of every call is pc = "idle": it is made between calls.
Next ==
    \/ pc = "idle" /\ \E value \in Values(bv) : SetValue(value)
    \/ pc = "idle" /\ \E value \in Values(bv) : SetFromIntEnter(value)
    \/ SetFromIntWrite
    \/ pc = "idle" /\ \E other \in Others(bv) : Compare(other)
    \/ pc = "idle" /\ \E key \in Keys(bv) : GetItem(key)
    \/ pc = "idle" /\ \E key \in Slices(bv) : GetSlice(key)
    \/ pc = "idle" /\ Bool
    \/ pc = "idle" /\ Int_
    \/ pc = "idle" /\ Bin
    \/ pc = "idle" /\ Oct
    \/ pc = "idle" /\ Dec
    \/ pc = "idle" /\ Hex
    \/ pc = "idle" /\ Copy
    \/ pc = "idle" /\ Invert
    \/ pc = "idle" /\ Increment
    \/ pc = "idle" /\ Decrement
    \/ pc = "idle" /\ Abs_
    \/ pc = "idle" /\ Neg
    \/ pc = "idle" /\ Inv
    \/ pc = "idle" /\ \E other \in Others(bv) : Add(other)
    \/ pc = "idle" /\ \E other \in Others(bv) : IAdd(other)
    \/ pc = "idle" /\ \E other \in Others(bv) : Sub(other)
    \/ pc = "idle" /\ \E other \in Others(bv) : ISub(other)
    \/ pc = "idle" /\ \E other \in Others(bv) : Mul(other)
    \/ pc = "idle" /\ \E other \in Others(bv) : IMul(other)
    \/ pc = "idle" /\ \E other \in Others(bv) : Pow(other)
    \/ pc = "idle" /\ \E other \in Others(bv) : IPow(other)
    \/ pc = "idle" /\ \E other \in Others(bv) : And(other)
    \/ pc = "idle" /\ \E other \in Others(bv) : IAnd(other)
    \/ pc = "idle" /\ \E other \in Others(bv) : Or(other)
    \/ pc = "idle" /\ \E other \in Others(bv) : IOr(other)
    \/ pc = "idle" /\ \E other \in Others(bv) : Xor(other)
    \/ pc = "idle" /\ \E other \in Others(bv) : IXor(other)
    \/ pc = "idle" /\ \E other \in Amounts(bv) : LShift(other)
    \/ pc = "idle" /\ \E other \in Amounts(bv) : ILShift(other)
    \/ pc = "idle" /\ \E other \in Amounts(bv) : RShift(other)
    \/ pc = "idle" /\ \E other \in Amounts(bv) : IRShift(other)
    \/ pc = "idle" /\ \E op \in Division, other \in Others(bv) : FloorDivisionCall(op, other)
    \/ FloorDivisionLoop
    \/ FloorDivisionReturn
    \/ Discard

Spec == Init /\ [][Next]_vars


\* ------------------------------------------------- what the bit patterns denote

\* The unsigned integer u(v) of a bit pattern v, most significant bit first.
RECURSIVE Unsigned(_)
Unsigned(v) ==
    IF Len(v) = 0 THEN 0
    ELSE 2 * Unsigned(SubSeq(v, 1, Len(v) - 1)) + (IF v[Len(v)] = "1" THEN 1 ELSE 0)

\* The two's complement integer of a bit pattern v.
TwosComplement(v) == IF v[1] = "1" THEN Unsigned(v) - Pow2(Len(v)) ELSE Unsigned(v)

\* The integer a vector of pattern v stands for.
IntegerOf(v, signed) == IF signed THEN TwosComplement(v) ELSE Unsigned(v)

\* The w-bit pattern of n mod 2^w.
Pattern(n, w) ==
    [i \in 1..w |-> IF ((n % Pow2(w)) \div Pow2(w - i)) % 2 = 1 THEN "1" ELSE "0"]

\* The pattern with every bit flipped.
Flipped(v) == [i \in 1..Len(v) |-> IF v[i] = "1" THEN "0" ELSE "1"]

\* The width of the receiver.
Width == ctor.bits

\* The argument of the last call is a vector of the receiver's width, or an int,
\* which stands for its pattern of that width.
VectorArgument ==
    \/ call.other.type = "BitValue" /\ Len(call.other.s) = Width
    \/ call.other.type = "int"

\* The pattern of the argument of the last call.
Argument == IF call.other.type = "int" THEN Pattern(call.other.n, Width) ELSE call.other.s

\* The last call was of one of the methods ops, with a vector argument, and returned.
Returned(ops) ==
    pc = "returned" /\ call.op \in ops /\ call.exc = NoExc /\ VectorArgument

\* The object x is a BitValue as constructed: `bits` characters, each "0" or "1",
\* with the bits and signed given at construction.
WellFormed(x) ==
    /\ x.bits = ctor.bits
    /\ x.signed = ctor.signed
    /\ Len(x.value) = x.bits
    /\ \A i \in 1..Len(x.value) : x.value[i] \in Bit


\* ----------------------------------------------------------------- properties

\* C1: the receiver after construction and after every call, and every BitValue an
\* operator returns (the quotient and the remainder of a division included), holds
\* exactly `bits` characters, each "0" or "1", with the bits and signed given at
\* construction.
C1_WellFormed ==
    /\ WellFormed(bv)
    /\ (call.ret # NoObj => WellFormed(call.ret))
    /\ (frame # NoFrame => WellFormed(frame.quotient) /\ WellFormed(frame.remainder))

\* C1 witness: an operator returned what a wider argument and a shift past the width
\* were cut to.
C1_Reached ==
    /\ pc = "returned"
    /\ call.op = "__ilshift__"
    /\ call.other = PyInt(Width + 1)
    /\ call.exc = NoExc
    /\ Width = 3
    /\ \E i \in 1..Width : call.before.value[i] = "1"

\* What 8-bit unsigned 0xFF + 1 returns.
FF_plus_1 == __add__(__init__(PyStr(<<"0", "x", "F", "F">>), 8, FALSE), PyInt(1)).value

\* C2: a + b is the pattern of (u(a) + u(b)) mod 2^w: the carry out of the most
\* significant bit is dropped and raises nothing; 8-bit unsigned 0xFF + 1 is 00000000.
C2_AddWraps ==
    /\ Returned({"__add__", "__iadd__"}) =>
          call.ret.value = Pattern(Unsigned(call.before.value) + Unsigned(Argument), Width)
    /\ (pc = "returned" /\ call.op \in {"__add__", "__iadd__"} /\ VectorArgument) =>
          call.exc = NoExc
    /\ FF_plus_1 = Repeat("0", 8)

\* C2 witness: 0b1111 + 1 returned 0b0000 at width 4.
C2_Reached ==
    /\ Returned({"__add__"})
    /\ call.before.value = <<"1", "1", "1", "1">>
    /\ call.other = PyInt(1)
    /\ call.ret.value = <<"0", "0", "0", "0">>

\* The argument of the last call as a vector like the receiver.
ArgumentObject == [value |-> Argument, bits |-> Width, signed |-> ctor.signed]

\* The integer n has a pattern of the receiver's width and sign status.
Representable(n) ==
    IF ctor.signed THEN - Pow2(Width - 1) <= n /\ n < Pow2(Width - 1)
    ELSE 0 <= n /\ n < Pow2(Width)

\* C3: a - b is a + (-b), where -b is ~b + 1, so it is the pattern of
\* (u(a) - u(b)) mod 2^w; for signed vectors whose difference is representable,
\* int(a - b) is int(a) - int(b).
C3_SubIsAddNeg ==
    Returned({"__sub__", "__isub__"}) =>
        /\ call.ret.value = __add__(call.before, PyBitValue(__neg__(ArgumentObject))).value
        /\ __neg__(ArgumentObject).value = Pattern(Unsigned(Flipped(Argument)) + 1, Width)
        /\ call.ret.value = Pattern(Unsigned(call.before.value) - Unsigned(Argument), Width)
        /\ (ctor.signed /\ Representable(TwosComplement(call.before.value)
                                         - TwosComplement(Argument))) =>
              /\ __int__(call.ret) = __int__(call.before) - __int__(ArgumentObject)
              /\ __int__(call.ret) = TwosComplement(call.before.value)
                                     - TwosComplement(Argument)

\* C3 witness: signed 4-bit 3 - 5 returned -2, the pattern 1110.
C3_Reached ==
    /\ Returned({"__sub__"})
    /\ ctor.signed
    /\ call.before.value = <<"0", "0", "1", "1">>
    /\ call.other.type = "BitValue"
    /\ Argument = <<"0", "1", "0", "1">>
    /\ call.ret.value = <<"1", "1", "1", "0">>

\* a added to zero k times, every partial sum wrapped to w bits.
RECURSIVE AddedTimes(_, _, _)
AddedTimes(a, k, w) ==
    IF k = 0 THEN Pattern(0, w)
    ELSE Pattern(Unsigned(AddedTimes(a, k - 1, w)) + Unsigned(a), w)

\* C4: a * b is a added to zero u(b) times with every partial sum wrapped to w bits,
\* the pattern of (u(a) * u(b)) mod 2^w.
C4_MulIsRepeatedAdd ==
    Returned({"__mul__", "__imul__"}) =>
        /\ call.ret.value = AddedTimes(call.before.value, Unsigned(Argument), Width)
        /\ call.ret.value = Pattern(Unsigned(call.before.value) * Unsigned(Argument), Width)

\* C4 witness: 4-bit 7 * 3 returned 21 mod 16, the pattern 0101.
C4_Reached ==
    /\ Returned({"__mul__"})
    /\ call.other.type = "BitValue"
    /\ call.before.value = <<"0", "1", "1", "1">>
    /\ Argument = <<"0", "0", "1", "1">>
    /\ call.ret.value = <<"0", "1", "0", "1">>

\* C5: the pair (q, r) a division by a vector b returns satisfies q * b + r == a,
\* wrapped to the width, and r < b under compare_to.
C5_DivisionPair ==
    Returned(Division) =>
        /\ frame.other.value = Argument
        /\ Pattern(Unsigned(frame.quotient.value) * Unsigned(Argument)
                   + Unsigned(frame.remainder.value), Width) = call.before.value
        /\ __add__(__mul__(frame.quotient, PyBitValue(frame.other)),
                   PyBitValue(frame.remainder)).value = call.before.value
        /\ __lt__(frame.remainder, PyBitValue(frame.other))
        /\ IntegerOf(frame.remainder.value, ctor.signed) < IntegerOf(Argument, ctor.signed)
        /\ call.ret = IF call.op \in InPlaceDivision THEN bv ELSE Picked(call.op, frame)
        /\ bv.value = IF call.op \in InPlaceDivision THEN Picked(call.op, frame).value
                      ELSE call.before.value

\* C5 witness: unsigned 4-bit 13 // 4 returned the quotient 3 with the remainder 1.
C5_Reached ==
    /\ Returned({"__floordiv__"})
    /\ ~ ctor.signed
    /\ call.before.value = <<"1", "1", "0", "1">>
    /\ Argument = <<"0", "1", "0", "0">>
    /\ call.ret.value = <<"0", "0", "1", "1">>
    /\ frame.remainder.value = <<"0", "0", "0", "1">>

\* The last call is a division by what normalizes to the integer 0 at the
\* receiver's width.
ZeroDivisor ==
    /\ call.op \in Division
    /\ \A i \in 1..Width : _normalize_value(call.before, call.other).value[i] = "0"

\* C6: //, %, //= and %= raise ZeroDivisionError whenever the divisor normalized to
\* the receiver's width is 0, without entering the loop, and the receiver of the
\* in-place operators keeps the value it had.
C6_ZeroDivision ==
    /\ (pc \in {"div", "returned"} /\ ZeroDivisor) =>
          /\ pc = "returned"
          /\ call.exc = "ZeroDivisionError"
          /\ bv = call.before
    /\ (call.op \in Division /\ call.exc = "ZeroDivisionError") => ZeroDivisor

\* C6 witness: x %= 0 raised on a receiver that is not 0, and so did x //= a wider
\* vector whose low bits are all 0.
C6_Reached ==
    /\ pc = "returned"
    /\ call.exc = "ZeroDivisionError"
    /\ \E i \in 1..Width : bv.value[i] = "1"
    /\ \/ call.op = "__imod__" /\ call.other = PyInt(0)
       \/ /\ call.op = "__ifloordiv__"
          /\ call.other.type = "BitValue"
          /\ Len(call.other.s) = Width + 1
          /\ call.other.s[1] = "1"

\* C7: every division by a vector that is not 0 leaves the loop of _floor_division
\* after finitely many iterations.  An iteration adds 1 to the quotient and takes the
\* divisor off the remainder, both wrapped to the width w, so after 2^w iterations
\* both are what they were when the loop was entered: a loop that takes 2^w
\* iterations never exits, and a loop that exits takes fewer.
C7_DivisionTerminates == pc = "div" => frame.iterations < Pow2(Width)

\* C7 witness: the loop of the signed 4-bit division 0b0000 // 0b1000 is, after 16
\* iterations, where it started, and takes the next iteration.
C7_Reached ==
    /\ pc = "div"
    /\ ctor.signed
    /\ call.op = "__floordiv__"
    /\ call.before.value = <<"0", "0", "0", "0">>
    /\ frame.other.value = <<"1", "0", "0", "0">>
    /\ frame.iterations = 16
    /\ frame.quotient.value = <<"0", "0", "0", "0">>
    /\ frame.remainder.value = call.before.value
    /\ _floor_division_test(frame)

\* 1 multiplied by a k times, every product wrapped to w bits.
RECURSIVE MultipliedTimes(_, _, _)
MultipliedTimes(a, k, w) ==
    IF k = 0 THEN Pattern(1, w)
    ELSE Pattern(Unsigned(MultipliedTimes(a, k - 1, w)) * Unsigned(a), w)

\* The argument of the last call is an exponent that is not negative and has a
\* pattern of the receiver's width.
ExponentArgument ==
    IF call.other.type = "int" THEN call.other.n >= 0 /\ Representable(call.other.n)
    ELSE ~ ctor.signed \/ Argument[1] = "0"

\* C8: for an exponent b that is not negative, a ** b is 1 multiplied by a exactly
\* b times with every product wrapped to w bits; a ** 0 is 1.
C8_PowIsRepeatedMul ==
    (Returned({"__pow__", "__ipow__"}) /\ ExponentArgument) =>
        /\ call.ret.value = MultipliedTimes(call.before.value, Unsigned(Argument), Width)
        /\ Unsigned(Argument) = 0 => call.ret.value = Pattern(1, Width)

\* C8 witness: unsigned 4-bit 3 ** 5 returned 243 mod 16, the pattern 0011, and a
\* vector to the power 0 returned 1.
C8_Reached ==
    /\ Returned({"__pow__"})
    /\ ~ ctor.signed
    /\ call.other.type = "BitValue"
    /\ \/ /\ call.before.value = <<"0", "0", "1", "1">>
          /\ Argument = <<"0", "1", "0", "1">>
          /\ call.ret.value = <<"0", "0", "1", "1">>
       \/ /\ call.before.value = <<"0", "1", "1", "0">>
          /\ Argument = <<"0", "0", "0", "0">>
          /\ call.ret.value = <<"0", "0", "0", "1">>

\* C9: -x is the pattern of (- u(x)) mod 2^w and -(-x) == x, for zero and for the
\* most negative signed pattern too; the signed 4-bit encoding of -1 is 1111.
C9_NegInvolution ==
    /\ (pc = "returned" /\ call.op = "__neg__") =>
          /\ call.exc = NoExc
          /\ call.ret.value = Pattern(- Unsigned(call.before.value), Width)
          /\ __neg__(call.ret).value = call.before.value
          /\ __eq__(__neg__(call.ret), PyBitValue(call.before))
    /\ (pc = "returned" /\ call.op = "value" /\ call.other = PyInt(-1)
        /\ ctor.signed /\ Width = 4) =>
          call.exc = NoExc /\ bv.value = <<"1", "1", "1", "1">>

\* C9 witness: the negation of the most negative signed 4-bit pattern returned the
\* pattern itself.
C9_Reached ==
    /\ pc = "returned"
    /\ call.op = "__neg__"
    /\ ctor.signed
    /\ call.before.value = <<"1", "0", "0", "0">>
    /\ call.ret.value = <<"1", "0", "0", "0">>

\* The integers the receiver and the argument of the last call stand for.
ReceiverInteger == IntegerOf(call.before.value, ctor.signed)

ArgumentInteger == IntegerOf(Argument, ctor.signed)

\* C10: compare_to and the six operators <, <=, ==, !=, >, >= on two vectors of the
\* same width answer what the comparison of their integers answers: two's
\* complement integers when signed (with different sign bits, the vector with sign
\* bit 0 is the greater), unsigned integers otherwise.
C10_ComparisonIsInteger ==
    Returned({"compare_to"}) =>
        /\ call.truth.cmp = IF ReceiverInteger < ArgumentInteger THEN "less"
                            ELSE IF ReceiverInteger > ArgumentInteger THEN "greater"
                            ELSE "equal"
        /\ call.truth.lt = (ReceiverInteger < ArgumentInteger)
        /\ call.truth.le = (ReceiverInteger <= ArgumentInteger)
        /\ call.truth.eq = (ReceiverInteger = ArgumentInteger)
        /\ call.truth.ne = (ReceiverInteger # ArgumentInteger)
        /\ call.truth.gt = (ReceiverInteger > ArgumentInteger)
        /\ call.truth.ge = (ReceiverInteger >= ArgumentInteger)
        /\ (ctor.signed /\ call.before.value[1] = "0" /\ Argument[1] = "1") =>
              call.truth.gt

\* C10 witness: signed 4-bit 0001 compared with 1111: the sign bits differ, 0001 is
\* the greater.
C10_Reached ==
    /\ Returned({"compare_to"})
    /\ ctor.signed
    /\ call.other.type = "BitValue"
    /\ call.before.value = <<"0", "0", "0", "1">>
    /\ Argument = <<"1", "1", "1", "1">>
    /\ call.truth.gt
    /\ ~ call.truth.lt

\* The answer compare_to gives when its two objects are exchanged.
Inverse(answer) ==
    CASE answer = "less" -> "greater"
      [] answer = "greater" -> "less"
      [] OTHER -> answer

\* C11: for any pair of vectors, of the same width or not, a.compare_to(b) is one of
\* less, equal and greater, and b.compare_to(a) is its inverse: less on one side iff
\* greater on the other, equal iff equal.
C11_CompareInverse ==
    (pc = "returned" /\ call.op = "compare_to" /\ call.other.type = "BitValue") =>
        /\ call.exc = NoExc
        /\ call.truth.cmp \in {"less", "equal", "greater"}
        /\ call.truth.reverse = Inverse(call.truth.cmp)

\* C11 for two vectors of the same width only.
C11_SameWidthInverse ==
    Returned({"compare_to"}) /\ call.other.type = "BitValue" =>
        /\ call.truth.cmp \in {"less", "equal", "greater"}
        /\ call.truth.reverse = Inverse(call.truth.cmp)

\* C11 witness: unsigned 4-bit 0000 compared with 5-bit 10000 answered equal, and
\* 10000 compared with 0000 answered greater.
C11_Reached ==
    /\ pc = "returned"
    /\ call.op = "compare_to"
    /\ ~ ctor.signed
    /\ call.before.value = <<"0", "0", "0", "0">>
    /\ call.other = PyBitValue([value |-> <<"1", "0", "0", "0", "0">>, bits |-> 5,
                                signed |-> FALSE])
    /\ call.truth.cmp = "equal"
    /\ call.truth.reverse = "greater"

\* The receiver has just been constructed from, or had its value set to, the
\* argument of the last call.
Stored == pc = "returned" /\ call.op \in {"__init__", "value"} /\ call.exc = NoExc

\* The samples of C12 at 16 and 8 bits: -7 and 65536 at 16 bits, 256 at 8 bits.
C12_Samples ==
    /\ __init__(PyInt(-7), 16, TRUE).value = Repeat("1", 13) \o <<"0", "0", "1">>
    /\ __init__(PyInt(65536), 16, TRUE).value = Repeat("0", 16)
    /\ __init__(PyInt(256), 8, TRUE).value = Repeat("0", 8)
    /\ __init__(PyStr(<<"2", "5", "6">>), 8, FALSE).value = Repeat("0", 8)

\* C12: a vector constructed from, or set to, an int or a decimal text n holds the
\* pattern of n mod 2^w, which for a negative n is the two's complement of the
\* pattern of its magnitude; the bits above the width are dropped and nothing is
\* raised (5 at 4 bits is 0101, -1 at 4 bits is 1111).
C12_IntPattern ==
    /\ Stored =>
          /\ call.other.type = "int" =>
                /\ bv.value = Pattern(call.other.n, Width)
                /\ call.other.n < 0 =>
                      bv.value = Pattern(Unsigned(Flipped(Pattern(- call.other.n, Width))) + 1,
                                         Width)
          /\ \A d \in DecimalTexts : call.other = PyStr(d.s) => bv.value = Pattern(d.n, Width)
    /\ (call.op = "value" /\ pc = "returned"
        /\ (call.other.type = "int" \/ \E d \in DecimalTexts : call.other = PyStr(d.s))) =>
          call.exc = NoExc
    /\ C12_Samples

\* C12 witness: a signed 4-bit vector constructed from -7 holds 1001, and one set to
\* the text "21" holds 0101.
C12_Reached ==
    /\ Width = 4
    /\ ctor.signed
    /\ pc = "returned"
    /\ \/ call.op = "__init__" /\ call.other = PyInt(-7) /\ bv.value = <<"1", "0", "0", "1">>
       \/ /\ call.op = "value"
          /\ call.other = PyStr(<<"2", "1">>)
          /\ call.before.value = <<"1", "1", "1", "0">>
          /\ bv.value = <<"0", "1", "0", "1">>

\* ------------------------------------------------------------------- C13

\* The expansion e brought to w bits: bit i from the right is bit i of e where e has
\* one, and above that e's own leading bit when signed, 0 when unsigned.
Extended(e, w, signed) ==
    [i \in 1..w |-> IF i > w - Len(e) THEN e[i - (w - Len(e))]
                    ELSE IF signed THEN e[1] ELSE "0"]

\* The samples of C13: '0o5' at 4 bits, '0xF0F' at 16 and at 8 bits.
C13_Samples ==
    LET o5 == PyStr(<<"0", "o", "5">>)
        xF0F == PyStr(<<"0", "x", "F", "0", "F">>)
    IN /\ __init__(o5, 4, TRUE).value = <<"1", "1", "0", "1">>
       /\ __init__(o5, 4, FALSE).value = <<"0", "1", "0", "1">>
       /\ __init__(xF0F, 16, TRUE).value
             = Repeat("1", 8) \o Repeat("0", 4) \o Repeat("1", 4)
       /\ __init__(xF0F, 16, FALSE).value
             = Repeat("0", 4) \o Repeat("1", 4) \o Repeat("0", 4) \o Repeat("1", 4)
       /\ __init__(xF0F, 8, TRUE).value = Repeat("0", 4) \o Repeat("1", 4)
       /\ __init__(xF0F, 8, FALSE).value = Repeat("0", 4) \o Repeat("1", 4)

\* C13: a vector constructed from, or set to, a 0b/0o/0x literal or another BitValue
\* holds the literal's binary expansion (the other vector's pattern) brought to its
\* width: extended on the left with the expansion's own leading bit when the
\* receiver is signed and with zeros when it is unsigned, or cut to its lowest
\* `bits` bits when the expansion is longer.
C13_LiteralExtension ==
    /\ Stored =>
          /\ \A l \in Literals :
                call.other = PyStr(l.s) => bv.value = Extended(l.expansion, Width, ctor.signed)
          /\ call.other.type = "BitValue" =>
                bv.value = Extended(call.other.s, Width, ctor.signed)
    /\ C13_Samples

\* C13 witness: a signed 4-bit vector constructed from, or set to, '0o5' holds 1101,
\* and one constructed from or set to the 2-bit vector 10 holds 1110.
C13_Reached ==
    /\ Stored
    /\ Width = 4
    /\ ctor.signed
    /\ \/ call.other = PyStr(<<"0", "o", "5">>) /\ bv.value = <<"1", "1", "0", "1">>
       \/ /\ call.other.type = "BitValue"
          /\ call.other.s = <<"1", "0">>
          /\ bv.value = <<"1", "1", "1", "0">>

\* ------------------------------------------------------------------- C14

\* The decimal text of an integer: its digits, after a "-" when it is negative.
RECURSIVE Digits(_)
Digits(n) ==
    LET d == CHOOSE c \in {"0", "1", "2", "3", "4", "5", "6", "7", "8", "9"} :
                 DigitValue(c) = n % 10
    IN IF n < 10 THEN <<d>> ELSE Digits(n \div 10) \o <<d>>

DecimalText(n) == IF n < 0 THEN <<"-">> \o Digits(- n) ELSE Digits(n)

\* The last call was of the method op, which takes no argument, and returned.
Answered(op) == pc = "returned" /\ call.op = op /\ call.exc = NoExc

\* C14: int(x) is u(x) - 2^w when x is signed and its sign bit is 1 and u(x)
\* otherwise; dec() is the decimal text of int(x), with a leading "-" exactly when
\* int(x) < 0; bool(x) is true iff some bit of x is 1.
C14_IntDecBool ==
    /\ Answered("__int__") =>
          call.truth.int = IF ctor.signed /\ bv.value[1] = "1"
                           THEN Unsigned(bv.value) - Pow2(Width)
                           ELSE Unsigned(bv.value)
    /\ Answered("dec") =>
          /\ call.truth.text = DecimalText(IntegerOf(bv.value, ctor.signed))
          /\ (call.truth.text[1] = "-") <=> (IntegerOf(bv.value, ctor.signed) < 0)
    /\ Answered("__bool__") => (call.truth.bool <=> \E i \in 1..Width : bv.value[i] = "1")
    /\ \A op \in {"__int__", "dec", "__bool__"} : (pc = "returned" /\ call.op = op) =>
          call.exc = NoExc /\ bv = call.before

\* C14 witness: int() of the signed 4-bit 1001 is -7, dec() of the signed 4-bit
\* 1111 is "-1", and bool() of 0000 is false.
C14_Reached ==
    /\ Width = 4
    /\ ctor.signed
    /\ \/ Answered("__int__") /\ bv.value = <<"1", "0", "0", "1">> /\ call.truth.int = -7
       \/ Answered("dec") /\ bv.value = <<"1", "1", "1", "1">> /\ call.truth.text = <<"-", "1">>
       \/ Answered("__bool__") /\ bv.value = <<"0", "0", "0", "0">> /\ ~ call.truth.bool

\* ------------------------------------------------------------------- C15

\* The last call was of one of the renderers and returned a text.
Rendered == pc = "returned" /\ call.op \in {"bin", "oct", "dec", "hex"} /\ call.exc = NoExc

\* The vector of the receiver's width and sign status constructed from the text the
\* last call returned.
Reconstructed == __init__(PyStr(call.truth.text), Width, ctor.signed)

\* C15: for each of bin(), oct(), dec() and hex(), the constructor accepts the text
\* rendered for x and a vector of the same width and sign status constructed from
\* it holds x again.
C15_RoundTrip ==
    Rendered =>
       /\ value_exc(PyStr(call.truth.text)) = NoExc
       /\ Reconstructed.value = bv.value

\* The round trip does hold through bin() and dec(), and through every renderer for
\* an unsigned vector.
C15_BinDecRoundTrip ==
    (Rendered /\ (call.op \in {"bin", "dec"} \/ ~ ctor.signed)) =>
       /\ value_exc(PyStr(call.truth.text)) = NoExc
       /\ Reconstructed.value = bv.value

\* C15 witness: oct() of the signed 4-bit 0101 is '0o5', and the signed 4-bit vector
\* constructed from '0o5' is 1101.
C15_Reached ==
    /\ Rendered
    /\ call.op = "oct"
    /\ Width = 4
    /\ ctor.signed
    /\ bv.value = <<"0", "1", "0", "1">>
    /\ call.truth.text = <<"0", "o", "5">>
    /\ Reconstructed.value = <<"1", "1", "0", "1">>

\* ------------------------------------------------------------------- C16

\* ceil(n / k)
CeilDiv(n, k) == (n + k - 1) \div k

\* The digits of the pattern v in groups of k bits taken from the least significant
\* bit, the topmost group completed with zero bits: CeilDiv(Len(v), k) digits.
GroupDigits(v, k) ==
    LET count == CeilDiv(Len(v), k)
        whole == Repeat("0", count * k - Len(v)) \o v
        digit == <<"0", "1", "2", "3", "4", "5", "6", "7", "8", "9",
                   "A", "B", "C", "D", "E", "F">>
    IN [g \in 1..count |-> digit[Unsigned(SubSeq(whole, (g - 1) * k + 1, g * k)) + 1]]

\* The digits without their leading zero digits, the last digit always kept.
RECURSIVE Unpadded(_)
Unpadded(digits) ==
    IF Len(digits) > 1 /\ digits[1] = "0" THEN Unpadded(Tail(digits)) ELSE digits

\* The 8-bit vectors of 0, 5 and -2 rendered by oct() and by hex().
C16_Rendered8 ==
    [n \in {0, 5, -2} |-> <<oct(__init__(PyInt(n), 8, TRUE)), hex(__init__(PyInt(n), 8, TRUE))>>]

\* The samples of C16: at 8 bits 0, 5 and -2 render as '0o000', '0o005', '0o376' and
\* as '0x00', '0x05', '0xFE'.
C16_Samples ==
    /\ C16_Rendered8[0] = << <<"0", "o", "0", "0", "0">>, <<"0", "x", "0", "0">> >>
    /\ C16_Rendered8[5] = << <<"0", "o", "0", "0", "5">>, <<"0", "x", "0", "5">> >>
    /\ C16_Rendered8[-2] = << <<"0", "o", "3", "7", "6">>, <<"0", "x", "F", "E">> >>

\* C16: oct() renders '0o' and exactly ceil(bits/3) octal digits, hex() renders '0x'
\* and exactly ceil(bits/4) upper-case hexadecimal digits, leading zero digits
\* included: the digits of the groups of 3 (of 4) bits taken from the least
\* significant bit, the topmost group completed with zero bits.
C16_DigitCount ==
    /\ Answered("oct") =>
          /\ Len(call.truth.text) = 2 + CeilDiv(Width, 3)
          /\ call.truth.text = <<"0", "o">> \o GroupDigits(bv.value, 3)
    /\ Answered("hex") =>
          /\ Len(call.truth.text) = 2 + CeilDiv(Width, 4)
          /\ call.truth.text = <<"0", "x">> \o GroupDigits(bv.value, 4)
    /\ C16_Samples

\* What oct() and hex() do render: the same digits without the leading zero digits.
C16_UnpaddedDigits ==
    /\ Answered("oct") => call.truth.text = <<"0", "o">> \o Unpadded(GroupDigits(bv.value, 3))
    /\ Answered("hex") => call.truth.text = <<"0", "x">> \o Unpadded(GroupDigits(bv.value, 4))
    /\ C16_Rendered8[0] = << <<"0", "o", "0">>, <<"0", "x", "0">> >>
    /\ C16_Rendered8[5] = << <<"0", "o", "5">>, <<"0", "x", "5">> >>
    /\ C16_Rendered8[-2] = << <<"0", "o", "3", "7", "6">>, <<"0", "x", "F", "E">> >>

\* C16 witness: oct() of the 4-bit 0101 returns '0o5', one digit where ceil(4/3) is 2.
C16_Reached ==
    /\ Width = 4
    /\ Answered("oct")
    /\ bv.value = <<"0", "1", "0", "1">>
    /\ call.truth.text = <<"0", "o", "5">>
    /\ GroupDigits(bv.value, 3) = <<"0", "5">>

\* ------------------------------------------------------------------- C17

\* The bit of weight 2^i of the pattern v.
BitAt(v, i) == v[Len(v) - i]

\* The last call was a shift, by an int amount n >= 0, and returned.
Shifted(ops) ==
    pc = "returned" /\ call.op \in ops /\ call.exc = NoExc
    /\ call.other.type = "int" /\ call.other.n >= 0

\* C17: x << n and x <<= n, for every amount n >= 0, return a vector of the same
\* width whose n lowest bits are 0 and whose bit i, for n <= i < w, is bit i - n of
\* x; the bits shifted past the most significant bit are dropped, so the result is
\* all zeros when n >= w. Nothing is raised, and only <<= changes the receiver.
C17_ShiftLeft ==
    /\ Shifted({"__lshift__", "__ilshift__"}) =>
          LET x == call.before.value
              n == call.other.n
          IN /\ WellFormed(call.ret)
             /\ \A i \in 0..(Width - 1) :
                   BitAt(call.ret.value, i) = IF i < n THEN "0" ELSE BitAt(x, i - n)
             /\ n >= Width => call.ret.value = Repeat("0", Width)
             /\ bv = IF call.op = "__ilshift__" THEN call.ret ELSE call.before
    /\ (pc = "returned" /\ call.op \in {"__lshift__", "__ilshift__"}
        /\ call.other.type = "int" /\ call.other.n >= 0) => call.exc = NoExc

\* C17 witness: the signed 4-bit 1011 shifted left by 2 is 1100, and shifted left by
\* 5 in place it is 0000.
C17_Reached ==
    /\ ctor.signed
    /\ call.before.value = <<"1", "0", "1", "1">>
    /\ \/ /\ Shifted({"__lshift__"})
          /\ call.other.n = 2
          /\ call.ret.value = <<"1", "1", "0", "0">>
       \/ /\ Shifted({"__ilshift__"})
          /\ call.other.n = 5
          /\ bv.value = <<"0", "0", "0", "0">>

\* ------------------------------------------------------------------- C18

\* The last call was x >> n or x >>= n with an int amount n >= 0.
RightShiftCalled ==
    pc = "returned" /\ call.op \in {"__rshift__", "__irshift__"}
    /\ call.other.type = "int" /\ call.other.n >= 0

\* What a returned right shift by n has done: the result has the same width, its
\* bit i is bit i + n of x where x has one and 0 above, whatever the sign status,
\* and >>= has stored it in the receiver.
RightShifted ==
    LET x == call.before.value
        n == call.other.n
    IN /\ WellFormed(call.ret)
       /\ \A i \in 0..(Width - 1) :
             BitAt(call.ret.value, i) = IF i + n < Width THEN BitAt(x, i + n) ELSE "0"
       /\ n = 0 => call.ret.value = x
       /\ n >= Width => call.ret.value = Repeat("0", Width)
       /\ bv = IF call.op = "__irshift__" THEN call.ret ELSE call.before

\* C18: x >> n and x >>= n, for every amount n >= 0, return x with its n lowest bits
\* removed and the n vacated positions at the most significant end filled with 0,
\* never with the sign bit, so that x >> 0 is x and x >> n is all zeros when
\* n >= w; x >>= n stores the same result in the receiver.
C18_ShiftRight == RightShiftCalled => call.exc = NoExc /\ RightShifted

\* A right shift by an amount of at least 1 does all of that.
C18_ShiftRightFromOne ==
    (RightShiftCalled /\ call.other.n >= 1) => call.exc = NoExc /\ RightShifted

\* C18 witness: the 4-bit 1011 shifted right by 0 raises ValueError and the receiver
\* is left as it was.
C18_Reached ==
    /\ RightShiftCalled
    /\ call.other.n = 0
    /\ call.before.value = <<"1", "0", "1", "1">>
    /\ call.exc = "ValueError"
    /\ bv = call.before

\* ------------------------------------------------------------------- C19

Bitwise == {"__and__", "__iand__", "__or__", "__ior__", "__xor__", "__ixor__"}

\* The last call was of &, | or ^ (or its in-place form) and returned.
Combined == pc = "returned" /\ call.op \in Bitwise /\ call.exc = NoExc

\* The and/or/xor truth table of the operator op, applied to two bits.
TruthTable(op, a, b) ==
    CASE op \in {"__and__", "__iand__"} -> IF a = "1" /\ b = "1" THEN "1" ELSE "0"
      [] op \in {"__or__", "__ior__"} -> IF a = "1" \/ b = "1" THEN "1" ELSE "0"
      [] OTHER -> IF a # b THEN "1" ELSE "0"

\* The position-by-position combination of two patterns of the same width.
PerPosition(op, x, y) == [i \in 1..Len(x) |-> TruthTable(op, x[i], y[i])]

\* C19 as stated: the two operands are brought to the longer of their two widths,
\* the shorter one padded with its own leading bit, and the result is the
\* per-position combination of the two patterns of that width.
C19_LongerWidth ==
    (Combined /\ call.other.type = "BitValue") =>
       LET a == call.before.value
           b == call.other.s
           longer == IF Len(a) < Len(b) THEN Len(b) ELSE Len(a)
       IN call.ret.value
             = PerPosition(call.op, Extended(a, longer, TRUE), Extended(b, longer, TRUE))

\* The argument of the last call brought to the receiver's width and sign status: an
\* int stands for its pattern of that width, a shorter vector is extended with its
\* own leading bit when the receiver is signed and with zeros when it is unsigned,
\* a longer one keeps its lowest bits.
NormalizedArgument ==
    IF call.other.type = "int" THEN Pattern(call.other.n, Width)
    ELSE Extended(call.other.s, Width, ctor.signed)

\* C19 amended: the argument is brought to the receiver's width and sign status, and
\* the result, of the receiver's width, is the per-position combination of the
\* receiver's pattern and that pattern; for operands of equal width this is the
\* plain position-by-position and/or/xor. The in-place forms store the result.
C19_ReceiverWidth ==
    /\ (Combined /\ call.other.type \in {"BitValue", "int"}) =>
          /\ WellFormed(call.ret)
          /\ call.ret.value = PerPosition(call.op, call.before.value, NormalizedArgument)
          /\ (call.other.type = "BitValue" /\ Len(call.other.s) = Width) =>
                call.ret.value = PerPosition(call.op, call.before.value, call.other.s)
          /\ bv = IF call.op \in {"__iand__", "__ior__", "__ixor__"} THEN call.ret
                  ELSE call.before
    /\ (pc = "returned" /\ call.op \in Bitwise /\ call.other.type \in {"BitValue", "int"}) =>
          call.exc = NoExc

\* C19 witness: the unsigned 4-bit 0101 and the 2-bit 11 give 0001 (the argument is
\* extended to 0011), and 0101 xor the 5-bit 10110 gives the 4-bit 0011.
C19_Reached ==
    /\ Combined
    /\ ~ ctor.signed
    /\ call.before.value = <<"0", "1", "0", "1">>
    /\ \/ /\ call.op = "__and__"
          /\ call.other.type = "BitValue"
          /\ call.other.s = <<"1", "1">>
          /\ call.ret.value = <<"0", "0", "0", "1">>
       \/ /\ call.op = "__ixor__"
          /\ call.other.type = "BitValue"
          /\ call.other.s = <<"1", "0", "1", "1", "0">>
          /\ bv.value = <<"0", "0", "1", "1">>

\* ------------------------------------------------------------------- C20

\* The last call was x[key] with an int key.
Indexed == pc = "returned" /\ call.op = "__getitem__" /\ call.other.type = "int"

\* C20: x[i] with 0 <= i < w is the bit of weight 2^i, so x[0] is the least
\* significant bit and x[w - 1] the most significant; x[-k] with 1 <= k <= w is
\* x[w - k], so x[-1] is the most significant bit; a key outside [-w, w) raises
\* IndexError and returns no bit. The receiver is left as it was.
C20_Indexing ==
    Indexed =>
       LET key == call.other.n
           weight == IF key >= 0 THEN key ELSE Width + key
       IN /\ (key >= - Width /\ key < Width) =>
                /\ call.exc = NoExc
                /\ call.truth.bit
                      = IF (Unsigned(bv.value) \div Pow2(weight)) % 2 = 1 THEN "1" ELSE "0"
                /\ key = 0 => call.truth.bit = bv.value[Width]
                /\ key \in {Width - 1, -1} => call.truth.bit = bv.value[1]
          /\ (key < - Width \/ key >= Width) =>
                /\ call.exc = "IndexError"
                /\ call.truth = NoTruth
          /\ bv = call.before

\* C20 witness: of the 4-bit 0110, x[1] is 1 and x[-1] is 0, and x[4] and x[-5]
\* raise IndexError.
C20_Reached ==
    /\ Indexed
    /\ bv.value = <<"0", "1", "1", "0">>
    /\ \/ call.other.n = 1 /\ call.exc = NoExc /\ call.truth.bit = "1"
       \/ call.other.n = -1 /\ call.exc = NoExc /\ call.truth.bit = "0"
       \/ call.other.n \in {4, -5} /\ call.exc = "IndexError"

\* ------------------------------------------------------------------- C21

\* The last call was x[start:stop:step].
Sliced == pc = "returned" /\ call.op = "__getitem__" /\ call.other.type = "slice"

\* An endpoint of a slice as Python reads it for a sequence of w items: the default
\* when omitted, counted from the end when negative, and inside [0, w].
Endpoint(e, default, w) ==
    IF e.type = "NoneType" THEN default
    ELSE LET k == IF e.n < 0 THEN e.n + w ELSE e.n
         IN IF k < 0 THEN 0 ELSE IF k > w THEN w ELSE k

\* The bits of the pattern v with indices from..(to - 1), the highest index first.
BitsOf(v, from, to) ==
    IF to <= from THEN <<>> ELSE [j \in 1..(to - from) |-> BitAt(v, to - j)]

\* The sample of C21: the 16-bit 0x9B5F sliced [0:4] is '1111', and whole it is
\* 1001101101011111.
C21_Sample ==
    LET x == __init__(PyStr(<<"0", "x", "9", "B", "5", "F">>), 16, TRUE)
    IN /\ __getitem___slice(x, PySlice(PyInt(0), PyInt(4), PyNone)) = Repeat("1", 4)
       /\ __getitem___slice(x, PySlice(PyNone, PyNone, PyNone))
             = <<"1", "0", "0", "1", "1", "0", "1", "1", "0", "1", "0", "1", "1", "1", "1", "1">>

\* C21: x[start:stop] with step 1 or no step returns the bits with indices
\* start..stop-1, the highest index first, max(0, stop - start) of them, the
\* endpoints read as Python reads them; x[:] is the whole value, x[:k] the k least
\* significant bits, x[k:] the w - k most significant ones, and x[k:] followed by
\* x[:k] is the whole value. Any other step raises ValueError. The receiver is
\* left as it was.
C21_Slicing ==
    /\ Sliced =>
          LET key == call.other
              start == Endpoint(key.start, 0, Width)
              stop == Endpoint(key.stop, Width, Width)
              k == IF key.start.type = "int" THEN key.start.n ELSE key.stop.n
          IN /\ (key.step.type = "NoneType" \/ key.step.n = 1) =>
                   /\ call.exc = NoExc
                   /\ call.truth.text = BitsOf(bv.value, start, stop)
                   /\ Len(call.truth.text) = IF stop > start THEN stop - start ELSE 0
                   /\ (key.start.type = "NoneType" /\ key.stop.type = "NoneType") =>
                         call.truth.text = bv.value
                   /\ (key.start.type = "NoneType" /\ key.stop.type = "int"
                       /\ k \in 0..Width) =>
                         /\ call.truth.text = SubSeq(bv.value, Width - k + 1, Width)
                         /\ __getitem___slice(bv, PySlice(PyInt(k), PyNone, PyNone))
                               \o call.truth.text = bv.value
                   /\ (key.start.type = "int" /\ key.stop.type = "NoneType"
                       /\ k \in 0..Width) =>
                         call.truth.text = SubSeq(bv.value, 1, Width - k)
             /\ (key.step.type = "int" /\ key.step.n # 1) =>
                   call.exc = "ValueError" /\ call.truth = NoTruth
             /\ bv = call.before
    /\ C21_Sample

\* C21 witness: of the 4-bit 0110, x[1:3] is '11', x[-1:] is '0', and x[::2] raises
\* ValueError.
C21_Reached ==
    /\ Sliced
    /\ bv.value = <<"0", "1", "1", "0">>
    /\ \/ /\ call.other = PySlice(PyInt(1), PyInt(3), PyNone)
          /\ call.truth.text = <<"1", "1">>
       \/ /\ call.other = PySlice(PyInt(-1), PyNone, PyInt(1))
          /\ call.truth.text = <<"0">>
       \/ /\ call.other = PySlice(PyNone, PyNone, PyInt(2))
          /\ call.exc = "ValueError"

\* ------------------------------------------------------------------- C22

\* The last call was an assignment to x.value that raised.
Refused == pc = "returned" /\ call.op = "value" /\ call.exc # NoExc

\* What the constructor, which hands its value to the setter, raises for the same
\* illegal values whatever the width and the sign status.
C22_Constructor ==
    /\ \A s \in IllegalTexts : value_exc(PyStr(s)) = "ValueError"
    /\ \A v \in IllegalTypes : value_exc(v) = "TypeError"

\* C22: an assignment of a text with a character outside the digits of its base
\* raises ValueError and one of a value of an unsupported type raises TypeError;
\* after an assignment that raised, the receiver's value, bits and signed are what
\* they were before. A construction from the same values raises the same.
C22_IllegalValue ==
    /\ (pc = "returned" /\ call.op = "value") =>
          /\ (call.other.type = "str" /\ call.other.s \in IllegalTexts) =>
                call.exc = "ValueError"
          /\ call.other.type \in {"bool", "list"} => call.exc = "TypeError"
    /\ Refused => bv = call.before /\ WellFormed(bv)
    /\ C22_Constructor

\* C22 witness: the signed 4-bit 1010 is assigned '0o187', which raises ValueError,
\* or True, which raises TypeError, and still holds 1010.
C22_Reached ==
    /\ Refused
    /\ ctor.signed
    /\ bv.value = <<"1", "0", "1", "0">>
    /\ \/ call.other = PyStr(<<"0", "o", "1", "8", "7">>) /\ call.exc = "ValueError"
       \/ call.other = PyTrue /\ call.exc = "TypeError"

\* ------------------------------------------------------------------- C23

\* The in-place operators and methods whose result is computed in one step.
InPlace ==
    {"__iadd__", "__isub__", "__imul__", "__ipow__", "__iand__", "__ior__", "__ixor__",
     "__ilshift__", "__irshift__", "invert", "increment", "decrement"}

\* The operators and methods that are not in-place.
NotInPlace ==
    {"__add__", "__sub__", "__mul__", "__pow__", "__floordiv__", "__mod__", "__and__",
     "__or__", "__xor__", "__lshift__", "__rshift__", "__neg__", "__abs__", "__invert__",
     "compare_to", "__getitem__", "copy", "bin", "oct", "dec", "hex", "__int__", "__bool__"}

\* What the operator that is not in-place returns for the receiver x and the
\* argument y of the in-place operator or method op.
Counterpart(op, x, y) ==
    CASE op = "__iadd__" -> __add__(x, y)
      [] op = "__isub__" -> __sub__(x, y)
      [] op = "__imul__" -> __mul__(x, y)
      [] op = "__ipow__" -> __pow__(x, y)
      [] op = "__iand__" -> __and__(x, y)
      [] op = "__ior__" -> __or__(x, y)
      [] op = "__ixor__" -> __xor__(x, y)
      [] op = "__ilshift__" -> __lshift__(x, y)
      [] op = "__irshift__" -> __rshift__(x, y)
      [] op = "invert" -> __invert__(x)
      [] op = "increment" -> __add__(x, PyInt(1))
      [] op = "decrement" -> __sub__(x, PyInt(1))

AbsReturned == pc = "returned" /\ call.op = "__abs__" /\ call.exc = NoExc

\* |n|
Magnitude(n) == IF n < 0 THEN - n ELSE n

\* The most negative pattern of w bits: 1 followed by zeros.
MostNegative(w) == <<"1">> \o Repeat("0", w - 1)

\* C24 as stated: for every signed pattern x, abs(x) is a vector of the same width
\* that is not negative and stands for the absolute value of int(x); for an unsigned
\* vector abs(x) is x.
C24_AbsIsMagnitude ==
    AbsReturned =>
       /\ WellFormed(call.ret)
       /\ IF ctor.signed
          THEN /\ TwosComplement(call.ret.value) >= 0
               /\ TwosComplement(call.ret.value) = Magnitude(TwosComplement(call.before.value))
          ELSE call.ret.value = call.before.value

\* C24 amended: the same for every signed pattern but the most negative one,
\* 100...0, whose magnitude 2^(w-1) has no pattern of that width: abs() of it is
\* 100...0 again, which is negative. The receiver is left as it was.
C24_AbsButMostNegative ==
    AbsReturned =>
       /\ WellFormed(call.ret)
       /\ IF ~ ctor.signed THEN call.ret.value = call.before.value
          ELSE IF call.before.value = MostNegative(Width)
          THEN call.ret.value = MostNegative(Width)
          ELSE /\ TwosComplement(call.ret.value) >= 0
               /\ TwosComplement(call.ret.value) = Magnitude(TwosComplement(call.before.value))
       /\ bv = call.before

\* C24 witness: abs() of the signed 4-bit 1011 (-5) is 0101, and abs() of the signed
\* 4-bit 1000 is 1000.
C24_Reached ==
    /\ AbsReturned
    /\ ctor.signed
    /\ \/ call.before.value = <<"1", "0", "1", "1">> /\ call.ret.value = <<"0", "1", "0", "1">>
       \/ call.before.value = <<"1", "0", "0", "0">> /\ call.ret.value = <<"1", "0", "0", "0">>

\* ------------------------------------------------------------------- C26

\* A reassignment of the value is between two of its writes.
Reassigning == pc = "set" /\ call.op = "value"

\* The pattern the reassignment under way stores in the end.
FinalValue == value_setter(call.before, call.other).value

\* C26: during a reassignment of the value the stored bit sequence is the one before
\* the operation or the final one, never an intermediate pattern, negative decimals
\* included.
C26_WrittenOnce ==
    Reassigning => bv.value \in {call.before.value, FinalValue}

\* A 4-bit 0000 that is being set to '-3' holds 0011 (the magnitude) or 1100 (its
\* inversion), neither the old 0000 nor the final 1101.
C26_Reached ==
    /\ Reassigning
    /\ call.before.value = <<"0", "0", "0", "0">>
    /\ call.other = PyStr(<<"-", "3">>)
    /\ FinalValue = <<"1", "1", "0", "1">>
    /\ bv.value \in {<<"0", "0", "1", "1">>, <<"1", "1", "0", "0">>}

\* What does hold: outside _set_from_int for a negative number no operation is ever
\* between two writes, and inside it the width and the signedness are kept and the
\* stored pattern is the magnitude, its inversion, and last the final pattern.
C26_WritesOfNegative ==
    /\ pc = "set" =>
          /\ Reassigning
          /\ _set_from_int_negative_taken(call.other)
          /\ bv.bits = call.before.bits /\ bv.signed = call.before.signed
          /\ LET n == int_of_str(setter_text(call.other))
                 writes == _set_from_int_writes(call.before, n)
             IN bv = writes[Len(writes) - Len(pending)]
    /\ pc # "set" => pending = <<>>

\* =================================================================== BinaryValue
\* The width-free class of binary_value.py.  Its methods are class methods on
\* texts and non-negative ints; a binary value is a text of the digits 0 and 1.

\* "0b" + value
BinaryValue_0b(value) == PyStr(<<"0", "b">> \o value)

\* BinaryValue.bin(value, strip_zeros) of a "0b" text or of a non-negative int.
BinaryValue_bin(value, strip_zeros) ==
    LET s == str(value)
        bin_value == IF Prefix2(s) = <<"0", "b">> THEN Captured(<<"0", "b">>, s)
                     ELSE IF int_of_str(s) = 0 THEN <<"0">>
                     ELSE bin_value_of(int_of_str(s))
        stripped == IF strip_zeros THEN lstrip0(bin_value) ELSE bin_value
    IN IF stripped = <<>> THEN <<"0">> ELSE stripped

\* BinaryValue.less_than: the shorter stripped text is the smaller; of two texts of
\* one length the one with "0" at the first difference.
BinaryValue_less_than(value, comparand) ==
    LET v == BinaryValue_bin(value, TRUE)
        c == BinaryValue_bin(comparand, TRUE)
    IN IF Len(v) # Len(c) THEN Len(v) < Len(c)
       ELSE \E i \in 1..Len(v) :
               /\ \A j \in 1..(i - 1) : v[j] = c[j]
               /\ v[i] = "0" /\ c[i] = "1"

BinaryValue_greater_than_or_equal(value, comparand) ==
    ~ BinaryValue_less_than(value, comparand)

\* "{:0>length}".format(value)
BinaryValue_format(value, length) ==
    IF Len(value) < length THEN Repeat("0", length - Len(value)) \o value ELSE value

\* The loop of BinaryValue.add over the digits of two texts of one length, from the
\* last digit to the first: <<result, carry>> after i digits.
RECURSIVE BinaryValue_add_loop(_, _, _, _)
BinaryValue_add_loop(augend, addend, i, rc) ==
    IF i >= Len(augend) THEN rc
    ELSE LET sc == _add[<<augend[Len(augend) - i], addend[Len(addend) - i], rc[2]>>]
         IN BinaryValue_add_loop(augend, addend, i + 1, <<<<sc[1]>> \o rc[1], sc[2]>>)

BinaryValue_add(augend, addend) ==
    LET a == BinaryValue_bin(augend, TRUE)
        b == BinaryValue_bin(addend, TRUE)
        length == IF Len(a) > Len(b) THEN Len(a) ELSE Len(b)
        rc == BinaryValue_add_loop(BinaryValue_format(a, length),
                                   BinaryValue_format(b, length), 0, <<<<>>, "0">>)
        result == lstrip0(<<rc[2]>> \o rc[1])
    IN IF result = <<>> THEN <<"0">> ELSE result

BinaryValue_invert(value) ==
    LET v == BinaryValue_bin(value, FALSE) IN [i \in 1..Len(v) |-> _inv[v[i]]]

\* s[-length:]
LastChars(s, length) == IF Len(s) <= length THEN s ELSE SubSeq(s, Len(s) - length + 1, Len(s))

\* BinaryValue.sub of a minuend that is not less than the subtrahend.
BinaryValue_sub(minuend, subtrahend) ==
    LET m == BinaryValue_bin(minuend, TRUE)
        s == BinaryValue_bin(subtrahend, TRUE)
        length == IF Len(m) > Len(s) THEN Len(m) ELSE Len(s)
        inverted == BinaryValue_invert(BinaryValue_0b(BinaryValue_format(s, length)))
        negated == BinaryValue_add(BinaryValue_0b(inverted), PyInt(1))
    IN LastChars(BinaryValue_add(BinaryValue_0b(BinaryValue_format(m, length)),
                                 BinaryValue_0b(negated)), length)

\* The most passes of the loop of _floor_division that are followed: more than any
\* division of a numerator below 2^MaxBits by a denominator that is not 0 makes.
MaxQuotient == Pow2(MaxBits)

\* BinaryValue._floor_division up to the first test of its loop.
BinaryValue__floor_division_enter(op, numerator, denominator) ==
    [pc |-> "loop", op |-> op, numerator |-> numerator, divisor |-> denominator,
     remainder |-> BinaryValue_bin(numerator, TRUE),
     denominator |-> BinaryValue_bin(denominator, TRUE),
     quotient |-> 0, exc |-> NoExc, ret |-> <<>>]

\* The test of the loop of _floor_division.
BinaryValue__floor_division_test(b) ==
    BinaryValue_greater_than_or_equal(BinaryValue_0b(b.remainder), BinaryValue_0b(b.denominator))

\* BinaryValue.div(numerator, denominator) or BinaryValue.mod(numerator, denominator)
\* is called.  No statement of _floor_division, div or mod raises an exception for
\* a denominator of 0.
BinaryCall(op, numerator, denominator) ==
    /\ binary.pc = "idle"
    /\ binary' = BinaryValue__floor_division_enter(op, numerator, denominator)
    /\ UNCHANGED <<bv, ctor, pc, call, frame, pending, flag, registers>>

\* One pass of the loop.
BinaryLoop ==
    /\ binary.pc = "loop"
    /\ binary.quotient < MaxQuotient
    /\ BinaryValue__floor_division_test(binary)
    /\ binary' = [binary EXCEPT
                     !.quotient = @ + 1,
                     !.remainder = BinaryValue_sub(BinaryValue_0b(binary.remainder),
                                                   BinaryValue_0b(binary.denominator))]
    /\ UNCHANGED <<bv, ctor, pc, call, frame, pending, flag, registers>>

\* The loop is left: div returns bin(quotient) and mod the remainder.
BinaryReturn ==
    /\ binary.pc = "loop"
    /\ ~ BinaryValue__floor_division_test(binary)
    /\ binary' = [binary EXCEPT
                     !.pc = "returned",
                     !.ret = IF binary.op = "div"
                             THEN BinaryValue_bin(PyInt(binary.quotient), TRUE)
                             ELSE binary.remainder]
    /\ UNCHANGED <<bv, ctor, pc, call, frame, pending, flag, registers>>

\* The caller drops the result.
BinaryDiscard ==
    /\ binary.pc = "returned"
    /\ binary' = [pc |-> "idle"]
    /\ UNCHANGED <<bv, ctor, pc, call, frame, pending, flag, registers>>

\* The numerators and denominators: the ints below 2^MaxBits and 3, and "0b" texts
\* with leading zeros.
Numerators ==
    {PyInt(n) : n \in 0..(Pow2(MaxBits) - 1)}
    \cup {PyStr(<<"0", "b">> \o s) : s \in {<<"0">>, <<"0", "1", "1", "0">>, <<"1", "1", "1">>}}

Denominators ==
    {PyInt(n) : n \in 0..3}
    \cup {PyStr(<<"0", "b">> \o s) : s \in {<<"0", "0">>, <<"0", "1", "0">>, <<"1", "0", "1">>}}

\* The BitValue of the other specifications, which no call of BinaryValue touches.
NoBitValue ==
    /\ bv = [value |-> <<"0">>, bits |-> 1, signed |-> TRUE]
    /\ ctor = [bits |-> 1, signed |-> TRUE]
    /\ pc = "idle"
    /\ call = NoCall
    /\ frame = NoFrame
    /\ pending = <<>>

BinaryInit ==
    /\ NoBitValue
    /\ binary = [pc |-> "idle"]
    /\ flag = NoFlag
    /\ registers = NoRegisters

BinaryNext ==
    \/ \E op \in {"div", "mod"}, numerator \in Numerators, denominator \in Denominators :
          BinaryCall(op, numerator, denominator)
    \/ BinaryLoop
    \/ BinaryReturn
    \/ BinaryDiscard

BinarySpec == BinaryInit /\ [][BinaryNext]_vars

\* ------------------------------------------------------------------- C25

\* A call of div or mod with a denominator of 0 has been made.
DividingByZero == binary.pc \in {"loop", "returned"} /\ binary.denominator = <<"0">>

\* C25: BinaryValue.div(n, 0) and BinaryValue.mod(n, 0) raise ZeroDivisionError for
\* every numerator n: the loop is not run, no value is returned.
C25_ZeroDivisionError ==
    DividingByZero =>
       /\ binary.quotient = 0
       /\ binary.pc = "returned" => binary.exc = "ZeroDivisionError"

\* div(5, 0) has run its loop as often as it is followed, the remainder is still
\* the numerator and the test of the loop is still true.
C25_Reached ==
    /\ DividingByZero
    /\ binary.op = "div" /\ binary.numerator = PyInt(5)
    /\ binary.quotient = MaxQuotient
    /\ binary.remainder = <<"1", "0", "1">>
    /\ BinaryValue__floor_division_test(binary)

\* What the code does with a denominator of 0: it never leaves the loop, since
\* every pass leaves the remainder as it was and the test true; it raises nothing.
C25_ZeroNeverLeaves ==
    DividingByZero =>
       /\ binary.pc = "loop" /\ binary.exc = NoExc
       /\ int_base2(binary.remainder) = int_base2(BinaryValue_bin(binary.numerator, TRUE))
       /\ BinaryValue__floor_division_test(binary)

\* With another denominator the call returns within MaxQuotient passes, and returns
\* the quotient or the remainder of the division of the numbers.
C25_NonZeroDivision ==
    (binary.pc \in {"loop", "returned"} /\ binary.denominator # <<"0">>) =>
       LET n == int_base2(BinaryValue_bin(binary.numerator, TRUE))
           d == int_base2(binary.denominator)
       IN /\ binary.quotient * d + int_base2(binary.remainder) = n
          /\ binary.quotient < MaxQuotient
          /\ binary.pc = "returned" =>
                /\ binary.exc = NoExc
                /\ int_base2(binary.ret) = IF binary.op = "div" THEN n \div d ELSE n % d

\* ========================================================================= Flag
\* The one-bit flag of components/flags.py: a record of its _content and its
\* _buffer, <<>> for a buffer of None and <<b>> for a buffer of b.

\* The most calls made on the components of one behaviour.
MaxCalls == 4

\* Flag.__init__
Flag___init__ == [content |-> FALSE, buffer |-> <<>>]

Flag_clear(self) == [self EXCEPT !.buffer = <<FALSE>>]

Flag_set(self) == [self EXCEPT !.buffer = <<TRUE>>]

\* Flag.complement, which is also toggle.
Flag_complement(self) == [self EXCEPT !.buffer = <<~ self.content>>]

\* BaseFlag.up_tick: pass.
Flag_up_tick(self) == self

\* A faulty down_tick that does not clear the buffer once it was read.
Flag_down_tick_unemptied(self) ==
    [self EXCEPT !.content = IF self.buffer # <<>> THEN self.buffer[1] ELSE @]

Flag_down_tick(self) ==
    [self EXCEPT !.content = IF self.buffer # <<>> THEN self.buffer[1] ELSE @,
                 !.buffer = <<>>]

\* A call of a method of the flag, which is added to the calls made so far.
FlagCall(op, after) ==
    /\ Len(flag.calls) < MaxCalls
    /\ flag' = [content |-> after.content, buffer |-> after.buffer,
                calls |-> Append(flag.calls, op)]
    /\ UNCHANGED <<bv, ctor, pc, call, frame, pending, binary, registers>>

FlagClear == FlagCall("clear", Flag_clear(flag))
FlagSet == FlagCall("set", Flag_set(flag))
FlagComplement == FlagCall("complement", Flag_complement(flag))
FlagToggle == FlagCall("toggle", Flag_complement(flag))
FlagUpTick == FlagCall("up_tick", Flag_up_tick(flag))
FlagDownTick == FlagCall("down_tick", Flag_down_tick(flag))

FlagInit ==
    /\ NoBitValue
    /\ binary = NoBinary
    /\ flag = [content |-> Flag___init__.content, buffer |-> Flag___init__.buffer,
               calls |-> <<>>]
    /\ registers = NoRegisters

FlagNext ==
    \/ FlagClear
    \/ FlagSet
    \/ FlagComplement
    \/ FlagToggle
    \/ FlagUpTick
    \/ FlagDownTick

FlagSpec == FlagInit /\ [][FlagNext]_vars

\* ------------------------------------------------------------------- C28

\* All but the last of a sequence.
Front(s) == SubSeq(s, 1, Len(s) - 1)

\* What a sequence of calls on a new flag leaves visible and staged, by the words of
\* the claim: <<content, staged>>, staged being <<>> when nothing is.  set, clear
\* and complement/toggle stage a value (complement the negation of the content
\* visible at the call) and leave the content; down_tick makes the most recently
\* staged value the content, if there is one, and nothing is staged after it.
RECURSIVE VisibleAndStaged(_)
VisibleAndStaged(calls) ==
    IF calls = <<>> THEN <<FALSE, <<>>>>
    ELSE LET before == VisibleAndStaged(Front(calls))
             op == calls[Len(calls)]
         IN CASE op = "set" -> <<before[1], <<TRUE>>>>
              [] op = "clear" -> <<before[1], <<FALSE>>>>
              [] op \in {"complement", "toggle"} -> <<before[1], <<~ before[1]>>>>
              [] op = "down_tick" ->
                    <<IF before[2] # <<>> THEN before[2][1] ELSE before[1], <<>>>>
              [] OTHER -> before

\* C28: after any sequence of set(), clear(), complement()/toggle() and down_tick()
\* calls on a Flag, set/clear/complement have only staged a value and left the
\* visible content; down_tick has made the content the most recently staged value
\* and emptied the buffer, and has left the content when nothing was staged since
\* the down_tick before.
C28_FlagStaging ==
    /\ flag.content = VisibleAndStaged(flag.calls)[1]
    /\ flag.buffer = VisibleAndStaged(flag.calls)[2]
    /\ flag.calls # <<>> =>
          LET before == VisibleAndStaged(Front(flag.calls))
          IN IF flag.calls[Len(flag.calls)] = "down_tick"
             THEN /\ flag.buffer = <<>>
                  /\ before[2] = <<>> => flag.content = before[1]
             ELSE flag.content = before[1]

\* clear(), complement(), down_tick(), down_tick(): the complement of the content
\* FALSE was staged last, so the first down_tick made the content TRUE, and the
\* second one, with nothing staged, left it; the buffer is empty.
C28_Reached ==
    /\ flag.calls = <<"clear", "complement", "down_tick", "down_tick">>
    /\ flag.content = TRUE
    /\ flag.buffer = <<>>

\* ==================================================================== registers
\* The registers of components/registers.py.  A general-purpose register is a
\* record of its _content (a BitValue), its _input (the number of a register, 0 for
\* None) and its _buffer (None, the text an up_tick read, or the BitValue an
\* increment() made); the registers of a machine are a sequence of such records.

\* The bits of the general-purpose registers.
RegisterSize == 2

\* The BitValue a buffer holds.
BufferObject(buffer) == [value |-> buffer.s, bits |-> Len(buffer.s), signed |-> buffer.signed]

\* BaseGeneralPurposeRegister.__init__: _content = BitValue(bits=size).
Register___init__(size) ==
    [content |-> __init__(PyNone, size, TRUE), input |-> 0, buffer |-> PyNone]

\* BaseDataRegister.up_tick of register r: the buffer becomes the input's bin().
Register_up_tick(file, r) ==
    IF file[r].input = 0 THEN file
    ELSE [file EXCEPT ![r].buffer = PyStr(bin(file[file[r].input].content))]

\* A faulty down_tick that leaves the buffer as it is.
Register_down_tick_unemptied(file, r) ==
    IF file[r].buffer # PyNone
    THEN [file EXCEPT ![r].content = value_setter(file[r].content, file[r].buffer)]
    ELSE file

\* BaseDataRegister.down_tick of register r: self.content = self._buffer through
\* the content setter of BaseGeneralPurposeRegister, then the buffer is None.
Register_down_tick(file, r) ==
    IF file[r].buffer # PyNone
    THEN [file EXCEPT ![r].content = value_setter(file[r].content, file[r].buffer),
                      ![r].buffer = PyNone]
    ELSE file

\* BaseGeneralPurposeRegister.increment: the buffer is a copy of the content,
\* incremented.
Register_increment(file, r) ==
    [file EXCEPT ![r].buffer = PyBitValue(increment(copy(file[r].content)))]

\* The exception of BaseGeneralPurposeRegister.clear, self._buffer.value = 0: only
\* a BitValue has the attribute.
Register_clear_exc(file, r) ==
    IF file[r].buffer.type = "BitValue" THEN NoExc ELSE "AttributeError"

\* BaseGeneralPurposeRegister.clear when it does not raise.
Register_clear(file, r) ==
    [file EXCEPT ![r].buffer = PyBitValue(value_setter(BufferObject(file[r].buffer), PyInt(0)))]

\* A call of method op on register r, which leaves the registers as `after` unless
\* it raises exc.
RegisterCall(op, r, exc, after) ==
    /\ Len(registers.calls) < MaxCalls
    /\ registers' = [file |-> IF exc = NoExc THEN after ELSE registers.file,
                     calls |-> Append(registers.calls, op),
                     exc |-> exc,
                     before |-> registers.file]
    /\ UNCHANGED <<bv, ctor, pc, call, frame, pending, binary, flag>>

RegisterClear ==
    RegisterCall("clear", 1, Register_clear_exc(registers.file, 1),
                 IF Register_clear_exc(registers.file, 1) = NoExc
                 THEN Register_clear(registers.file, 1) ELSE registers.file)

RegisterIncrement == RegisterCall("increment", 1, NoExc, Register_increment(registers.file, 1))

RegisterUpTick == RegisterCall("up_tick", 1, NoExc, Register_up_tick(registers.file, 1))

RegisterDownTick == RegisterCall("down_tick", 1, NoExc, Register_down_tick(registers.file, 1))

\* The objects of w bits.
Contents(w) == {[value |-> s, bits |-> w, signed |-> TRUE] : s \in BitStrings(w)}

\* A new register, 1, on which the calls are made, and a register of the same size
\* with some content, 2, which is the input of register 1 or is not.
RegisterInit ==
    /\ NoBitValue
    /\ binary = NoBinary
    /\ flag = NoFlag
    /\ \E input \in {0, 2}, content \in Contents(RegisterSize) :
          registers = [file |-> <<[Register___init__(RegisterSize) EXCEPT !.input = input],
                                  [Register___init__(RegisterSize) EXCEPT !.content = content]>>,
                       calls |-> <<>>, exc |-> NoExc, before |-> <<>>]

RegisterNext ==
    \/ RegisterClear
    \/ RegisterIncrement
    \/ RegisterUpTick
    \/ RegisterDownTick

RegisterSpec == RegisterInit /\ [][RegisterNext]_vars

\* ------------------------------------------------------------------- C30

\* The last call made on the register, "" when none was; the one before it.
LastCall == IF registers.calls = <<>> THEN "" ELSE Last(registers.calls)
CallBefore == IF Len(registers.calls) < 2 THEN "" ELSE registers.calls[Len(registers.calls) - 1]

\* The register the calls are made on, now and before the last call.
Register == registers.file[1]
RegisterBefore == registers.before[1]

\* The pattern of w bits after pattern s, wrapped.
Successor(s) == Pattern((Unsigned(s) + 1) % Pow2(Len(s)), Len(s))

\* C30: clear() may be called in any state of a general-purpose register (new,
\* after up_tick, after a down_tick) and stages zero without changing the visible
\* content, which a down_tick then makes all zero bits; increment() stages
\* content + 1, wrapped, which becomes visible only at the next down_tick.
C30_ClearAndIncrement ==
    /\ LastCall = "clear" =>
          /\ registers.exc = NoExc
          /\ Register.content = RegisterBefore.content
          /\ Register.buffer.type = "BitValue" /\ Register.buffer.s = Zeros(RegisterSize)
    /\ LastCall = "increment" =>
          /\ registers.exc = NoExc
          /\ Register.content = RegisterBefore.content
          /\ Register.buffer.type = "BitValue"
          /\ Register.buffer.s = Successor(Register.content.value)
    /\ (LastCall = "down_tick" /\ CallBefore = "clear") =>
          Register.content.value = Zeros(RegisterSize)
    /\ (LastCall = "down_tick" /\ CallBefore = "increment") =>
          Register.content.value = Successor(RegisterBefore.content.value)

\* clear() on a new register with an input has raised AttributeError: the buffer
\* is None.
C30_Reached ==
    /\ registers.calls = <<"clear">>
    /\ registers.exc = "AttributeError"
    /\ Register.input = 2
    /\ Register.buffer = PyNone

\* What the code does: clear() raises AttributeError and changes nothing unless the
\* buffer holds the BitValue of an increment(), which it sets to zero; increment()
\* stages content + 1 and leaves the content, and the down_tick after it makes the
\* staged pattern the content and empties the buffer.
C30_ClearOnlyAfterIncrement ==
    /\ LastCall = "clear" =>
          /\ Register.content = RegisterBefore.content
          /\ IF RegisterBefore.buffer.type = "BitValue"
             THEN /\ registers.exc = NoExc
                  /\ Register.buffer.type = "BitValue"
                  /\ Register.buffer.s = Zeros(RegisterSize)
             ELSE /\ registers.exc = "AttributeError"
                  /\ Register = RegisterBefore
    /\ LastCall = "increment" =>
          /\ registers.exc = NoExc
          /\ Register.content = RegisterBefore.content
          /\ Register.buffer.type = "BitValue"
          /\ Register.buffer.s = Successor(Register.content.value)
    /\ LastCall = "down_tick" =>
          /\ Register.buffer = PyNone
          /\ CallBefore = "increment" =>
                Register.content.value = Successor(RegisterBefore.content.value)
          /\ (CallBefore = "clear" /\ RegisterBefore.buffer.type = "BitValue") =>
                Register.content.value = Zeros(RegisterSize)

\* ---------------------------------------------------------------- the clock
\* Three general-purpose registers of one size under the clock: a cycle is an
\* up_tick of every register, in any order, and then a down_tick of every register,
\* in any order.  Between two cycles increment() is called on any of them.

\* The registers of the machine.
Registers == {1, 2, 3}

\* The input of each register: two registers that are each other's input and one
\* without input; a chain; a ring; a register that is its own input and the input
\* of another; no inputs.
Wirings == {<<2, 1, 0>>, <<0, 1, 2>>, <<3, 1, 2>>, <<1, 1, 0>>, <<0, 0, 0>>}

\* Between two cycles: increment() on register r.
ClockIncrement(r) ==
    /\ registers.phase = "idle"
    /\ registers' = [registers EXCEPT !.file = Register_increment(registers.file, r)]
    /\ UNCHANGED <<bv, ctor, pc, call, frame, pending, binary, flag>>

\* The up pass: up_tick of a register that has not had its up_tick in this cycle.
\* The first one starts the cycle, the last one ends the pass.
ClockUpTick(r) ==
    /\ registers.phase \in {"idle", "up"}
    /\ r \notin registers.ticked
    /\ registers' = [file |-> Register_up_tick(registers.file, r),
                     phase |-> IF registers.ticked \cup {r} = Registers THEN "down" ELSE "up",
                     ticked |-> IF registers.ticked \cup {r} = Registers THEN {}
                                ELSE registers.ticked \cup {r},
                     start |-> IF registers.phase = "idle" THEN registers.file
                               ELSE registers.start]
    /\ UNCHANGED <<bv, ctor, pc, call, frame, pending, binary, flag>>

\* The down pass: down_tick of a register that has not had its down_tick in this
\* cycle.  The last one ends the cycle.
ClockDownTick(r) ==
    /\ registers.phase = "down"
    /\ r \notin registers.ticked
    /\ registers' = [registers EXCEPT
                        !.file = Register_down_tick(registers.file, r),
                        !.phase = IF registers.ticked \cup {r} = Registers THEN "done" ELSE "down",
                        !.ticked = IF registers.ticked \cup {r} = Registers THEN {}
                                   ELSE registers.ticked \cup {r}]
    /\ UNCHANGED <<bv, ctor, pc, call, frame, pending, binary, flag>>

\* The machine goes on after the cycle.
ClockDone ==
    /\ registers.phase = "done"
    /\ registers' = [registers EXCEPT !.phase = "idle", !.start = <<>>]
    /\ UNCHANGED <<bv, ctor, pc, call, frame, pending, binary, flag>>

\* The registers after construction, with their inputs set and a content loaded
\* into each through the content setter of BaseGeneralPurposeRegister.
ClockInit ==
    /\ NoBitValue
    /\ binary = NoBinary
    /\ flag = NoFlag
    /\ \E wiring \in Wirings, loaded \in [Registers -> BitStrings(RegisterSize)] :
          registers =
             [file |-> [r \in 1..3 |->
                          [Register___init__(RegisterSize) EXCEPT
                              !.input = wiring[r],
                              !.content = value_setter(@, PyStr(<<"0", "b">> \o loaded[r]))]],
              phase |-> "idle", ticked |-> {}, start |-> <<>>]

ClockNext ==
    \/ \E r \in Registers : ClockIncrement(r)
    \/ \E r \in Registers : ClockUpTick(r)
    \/ \E r \in Registers : ClockDownTick(r)
    \/ ClockDone

ClockSpec == ClockInit /\ [][ClockNext]_vars

\* ------------------------------------------------------------------- C27

\* A cycle has ended: every register has had its up_tick and then its down_tick.
CycleEnded == registers.phase = "done"

\* Register r has an input.
HasInput(r) == registers.file[r].input # 0

\* The patterns register r held at the start of the cycle and holds now.
ContentAtStart(r) == registers.start[r].content.value
ContentNow(r) == registers.file[r].content.value

\* C27 as stated: after a cycle every register with an input holds the content its
\* input had at the start of the cycle, whatever the orders of the two passes; a
\* register without input holds the content it had; every buffer is None.
C27_ClockCycle ==
    CycleEnded =>
       \A r \in Registers :
          /\ HasInput(r) => ContentNow(r) = ContentAtStart(registers.file[r].input)
          /\ ~ HasInput(r) => ContentNow(r) = ContentAtStart(r)
          /\ registers.file[r].buffer = PyNone

\* C27 amended: the same, but a register without input keeps its content only when
\* nothing was staged in its buffer at the start of the cycle; the pattern that an
\* increment() staged before the cycle is committed by the down pass.  Every
\* register keeps its size, and after the up pass the buffer of a register with an
\* input holds the text of the content its input had at the start.
C27_ClockCycleOfStaged ==
    /\ CycleEnded =>
          \A r \in Registers :
             /\ HasInput(r) => ContentNow(r) = ContentAtStart(registers.file[r].input)
             /\ (~ HasInput(r) /\ registers.start[r].buffer = PyNone) =>
                   ContentNow(r) = ContentAtStart(r)
             /\ (~ HasInput(r) /\ registers.start[r].buffer # PyNone) =>
                   ContentNow(r) = registers.start[r].buffer.s
             /\ registers.file[r].buffer = PyNone
             /\ registers.file[r].content.bits = RegisterSize
    /\ registers.phase = "down" =>
          \A r \in Registers \ registers.ticked :
             HasInput(r) => registers.file[r].buffer.s = <<"0", "b">> \o ContentAtStart(registers.file[r].input)

\* Registers 1 and 2, each the input of the other, have exchanged the contents 01
\* and 10 (register 2 had a staged increment, which the up pass replaced), and
\* register 3, without input and with an increment staged, went from 00 to 01.
C27_Reached ==
    /\ CycleEnded
    /\ registers.file[1].input = 2 /\ registers.file[2].input = 1
    /\ registers.file[3].input = 0
    /\ ContentAtStart(1) # ContentAtStart(2)
    /\ ContentNow(1) = ContentAtStart(2) /\ ContentNow(2) = ContentAtStart(1)
    /\ registers.start[2].buffer # PyNone
    /\ registers.start[3].buffer # PyNone
    /\ ContentNow(3) = Successor(ContentAtStart(3))

\* ------------------------------------------------------------ slice registers
\* A BaseSliceRegister over a general-purpose parent of MaxBits bits: the parent's
\* record, the slice's _slice (<<>> for None) and the write under way: op is
\* "content" from a write to the point where the caller goes on, "" between calls.

\* BaseSliceRegister.set_slice: (start, end, length) as Python slices read them.
BaseSliceRegister_set_slice(start_bit, slice_size) ==
    <<start_bit, start_bit + slice_size, slice_size>>

\* BaseSliceRegister.content: self._parent[start:end].
BaseSliceRegister_content(parent, slice) ==
    __getitem___slice(parent.content, PySlice(PyInt(slice[1]), PyInt(slice[2]), PyNone))

\* The exception the content setter raises: the unpacking of a _slice of None, the
\* constructor of BitValue(value, length) for a length below 1, or the value setter
\* for the value.
BaseSliceRegister_content_exc(slice, value) ==
    IF slice = <<>> THEN "TypeError"
    ELSE IF slice[3] < 1 THEN "ValueError"
    ELSE value_exc(value)

\* A faulty content setter that puts the bits below the slice above it.
BaseSliceRegister_content_setter_swapped(parent, slice, value) ==
    LET before == __getitem___slice(parent.content, PySlice(PyNone, PyInt(slice[1]), PyNone))
        after == __getitem___slice(parent.content, PySlice(PyInt(slice[2]), PyNone, PyNone))
        content == <<"0", "b">> \o before \o __init__(value, slice[3], TRUE).value \o after
    IN [parent EXCEPT !.content = value_setter(parent.content, PyStr(content))]

\* The content setter of BaseSliceRegister when it does not raise: the parent gets
\* "0b" + after + BitValue(value, length).value + before through its own setter.
BaseSliceRegister_content_setter(parent, slice, value) ==
    LET before == __getitem___slice(parent.content, PySlice(PyNone, PyInt(slice[1]), PyNone))
        after == __getitem___slice(parent.content, PySlice(PyInt(slice[2]), PyNone, PyNone))
        content == <<"0", "b">> \o after \o __init__(value, slice[3], TRUE).value \o before
    IN [parent EXCEPT !.content = value_setter(parent.content, PyStr(content))]

\* slice.set_slice(parent, start_bit, slice_size)
SliceSetSlice(start_bit, slice_size) ==
    /\ registers.op = ""
    /\ registers' = [registers EXCEPT
                        !.slice = BaseSliceRegister_set_slice(start_bit, slice_size)]
    /\ UNCHANGED <<bv, ctor, pc, call, frame, pending, binary, flag>>

\* slice.content = value
SliceWrite(value) ==
    /\ registers.op = ""
    /\ LET exc == BaseSliceRegister_content_exc(registers.slice, value)
       IN registers' = [registers EXCEPT
                           !.parent = IF exc = NoExc
                                      THEN BaseSliceRegister_content_setter(
                                              registers.parent, registers.slice, value)
                                      ELSE @,
                           !.op = "content", !.value = value, !.exc = exc,
                           !.before = registers.parent]
    /\ UNCHANGED <<bv, ctor, pc, call, frame, pending, binary, flag>>

\* The caller goes on after the write.
SliceDiscard ==
    /\ registers.op = "content"
    /\ registers' = [registers EXCEPT
                        !.op = "", !.value = PyNone, !.exc = NoExc,
                        !.before = registers.parent]
    /\ UNCHANGED <<bv, ctor, pc, call, frame, pending, binary, flag>>

\* The values written through a slice of `length` bits: those a BitValue of that
\* many bits is set to, the BitValue arguments of either sign status.
SliceValues(length) ==
    UNION {Values([value |-> Zeros(length), bits |-> length, signed |-> signed]) :
              signed \in BOOLEAN} \ {PyNone}

\* A new parent of MaxBits bits and a new slice register.
SliceInit ==
    /\ NoBitValue
    /\ binary = NoBinary
    /\ flag = NoFlag
    /\ registers = [parent |-> Register___init__(MaxBits), slice |-> <<>>,
                    op |-> "", value |-> PyNone, exc |-> NoExc,
                    before |-> Register___init__(MaxBits)]

SliceNext ==
    \/ \E start_bit \in 0..(MaxBits - 1) : \E slice_size \in 0..(MaxBits - start_bit) :
          SliceSetSlice(start_bit, slice_size)
    \/ \E value \in SliceValues(IF registers.slice = <<>> THEN 1 ELSE registers.slice[3]) :
          SliceWrite(value)
    \/ SliceDiscard

SliceSpec == SliceInit /\ [][SliceNext]_vars

\* ------------------------------------------------------------------- C29

\* A value has been written through the slice register; the write was accepted;
\* the slice lies inside the parent.
SliceWritten == registers.op = "content"
SliceAccepted == SliceWritten /\ registers.exc = NoExc
SliceInside == registers.slice # <<>> /\ registers.slice[2] <= MaxBits

\* The pattern of `size` bits that stands for the written value: of an int or a
\* decimal text n the pattern of n mod 2^size; of a literal or a vector its lowest
\* `size` bits, a shorter one extended with its own leading bit (C13, the vector
\* BitValue(value, size) being signed).
WrittenPattern(value, size) ==
    IF value.type = "int" THEN Pattern(value.n, size)
    ELSE IF value.type = "BitValue" THEN Extended(value.s, size, TRUE)
    ELSE IF \E d \in DecimalTexts : value.s = d.s
         THEN Pattern((CHOOSE d \in DecimalTexts : value.s = d.s).n, size)
    ELSE Extended((CHOOSE l \in Literals : value.s = l.s).expansion, size, TRUE)

\* C29: a write through a slice register set by set_slice(parent, start_bit,
\* slice_size) with start_bit + slice_size <= len(parent) changes only the parent's
\* bits start_bit..start_bit+slice_size-1, which become the slice_size-bit
\* truncation of the written value; the other bits and the width of the parent are
\* as before, and the slice then reads as the bits written.
C29_SliceWrite ==
    /\ (SliceAccepted /\ SliceInside) =>
          LET start == registers.slice[1]
              end == registers.slice[2]
              written == WrittenPattern(registers.value, registers.slice[3])
              now == registers.parent.content
          IN /\ now.bits = MaxBits /\ Len(now.value) = MaxBits /\ now.signed
             /\ \A i \in 0..(MaxBits - 1) :
                   BitAt(now.value, i) = IF start <= i /\ i < end
                                         THEN BitAt(written, i - start)
                                         ELSE BitAt(registers.before.content.value, i)
             /\ BaseSliceRegister_content(registers.parent, registers.slice) = written
             /\ registers.parent.input = registers.before.input
             /\ registers.parent.buffer = registers.before.buffer
    /\ (SliceWritten /\ ~ SliceAccepted) => registers.parent = registers.before

\* 5 has been written through the slice of bits 0..1 of a parent that held 0110:
\* the two bits are 01, the two lowest bits of 5, and the parent holds 0101.
C29_Reached ==
    /\ SliceAccepted
    /\ registers.slice = <<0, 2, 2>>
    /\ registers.value = PyInt(5)
    /\ registers.before.content.value = <<"0", "1", "1", "0">>
    /\ registers.parent.content.value = <<"0", "1", "0", "1">>

====
